---- MODULE Spec2Model ----
(***************************************************************************)
(* CNM relay: the hub's client WebSocket handler and its LSC pipe dialer,  *)
(* the session launcher's pipe server, the machine registry and the        *)
(* per-client rate limiter, modelled from src/server/launcher.js and       *)
(* src/server/machineRegistry.js.                                          *)
(*                                                                         *)
(* Every Node.js callback (ws 'message', pipe 'connect'/'data'/'error'/    *)
(* 'close', timers, the launcher's accept and PTY callbacks) is one atomic *)
(* action; the event loop interleaves them freely.                         *)
(***************************************************************************)
EXTENDS Integers, Sequences, FiniteSets, TLC

\* ---------------------------------------------------------------- bounds
Sessions == {"s1", "s2", "s3"}
Clients  == {"c1", "c2"}
MaxConns == 4        \* pipes dialed in one behaviour
MaxOut   == 1        \* PTY output chunks of the session that writes
MaxMsgs  == 3        \* messages the first client sends in one behaviour
MaxMsgs2 == 1        \* messages the second client sends in one behaviour
MaxChunk == 2        \* LSC frames delivered by one pipe 'data' event

\* ------------------------------------------------------ program constants
MAX_PIPE_BUFFER_SIZE    == 1048576
MAX_MESSAGES_PER_SECOND == 10
RATE_WINDOW_MS          == 1000

NULL    == "null"
ConnIds == 1..MaxConns

VARIABLES
  sr,              \* session registry: per session id the state of its file
  produced,        \* launcher: number of PTY chunks emitted so far
  ring,            \* launcher: characters held by the scrollback ring
  conn,            \* every pipe socket the hub has dialed (hub + launcher end)
  nextConn,        \* next unused pipe id
  pipeSockets,     \* per client: Map sessionId -> conn (0 = no entry)
  activeSessionId, \* per client
  messageCount,    \* per client rate limiter
  lastRateReset,   \* per client rate limiter
  now,             \* Date.now()
  quota,           \* per client: messages it may still send (bounds the behaviour)
  wsSent,          \* what the latest callback sent: frames on a WebSocket,
                   \* and the pipes an input/control/resize was written to
  stream,          \* history, per client and session: dials, and the
                   \* scrollback and output frames the client was sent
  lastOk,          \* history: session of the last connect_session not refused
  recent,          \* history, per client: its messages of the last second,
                   \* each with its arrival time and whether it was dispatched
  machines,        \* machine registry: Map machineId -> record
  agentWs,         \* every agent WebSocket: readyState, registeredMachineId
  nextSweep,       \* when the registry's cleanup interval fires next
  mrOut,           \* what the latest registry callback replied and closed
  lastBeat,        \* history, per machine: its last registration or heartbeat
  silent,          \* history: the machine spent 45 s without a heartbeat
  swept,           \* history: a sweep found the machine's heartbeat timed out
  clientWs,        \* every client WebSocket: its state at the hub, isAlive,
                   \* and (history) the pings in a row it has left unanswered
                   \* and the credentials its upgrade request presented
  activeSessions,  \* auth sessions: Map sessionToken -> { lastSeen }
  nextAuthSweep,   \* when the auth session cleanup interval fires next
  authLog,         \* history: what the latest validateAuth call decided, and
                   \* how long the session it accepted had been idle
  httpLeft,        \* HTTP requests still to come (bounds the behaviour)
  files,           \* the registry directory: per session id, its file
  launchers,       \* every launcher process: session id, state, start time,
                   \* registryUpdateTimer, and (history) how it exited
  slLog,           \* history: what the latest registry scan returned, or
                   \* what the latest launcher callback did
  fn,              \* a filename, and what sanitizeFilename made of it when
                   \* applied once and twice
  disk,            \* the paths handleFileUpload has written
  upLog,           \* history: the latest upload_file request and its result
  hook,            \* the webhook endpoint: whether a secret is configured,
                   \* whether the hub process is running, and (history) the
                   \* latest webhook request and what became of it
  agent,           \* the agent process: isShuttingDown, every hub WebSocket
                   \* it created, hubSocket, hubReconnectTimer, every
                   \* interval it started, heartbeatTimer, projectRefreshTimer
  agLog,           \* history: what the latest agent callback did
  p2p,             \* the agent's P2P endpoint: one client's pipe state
  browser,         \* the web client: every hub WebSocket it created, ws,
                   \* reconnectDelay, reconnectTimeout, pingInterval, the
                   \* sessions map, focusedSessionId, lastFocusedSessionId,
                   \* focusTerm, splitPanels, selectedMachine, currentView
  wire,            \* per client WebSocket, every frame the client has sent
  brLog,           \* history: what the latest client callback did
  sb,              \* one launcher's scrollbackLines and scrollbackBytes, with
                   \* what the latest callback did to them
  term             \* client: every write the focus terminal holds, the
                   \* writeScrollbackChunked calls whose timeout is pending,
                   \* and (history) the session frames received so far and
                   \* the output frames received per session since its
                   \* connect_session

hubVars == <<sr, produced, ring, conn, nextConn, pipeSockets, activeSessionId,
             messageCount, lastRateReset, now, quota, wsSent, stream, lastOk,
             recent>>

mrVars == <<machines, agentWs, nextSweep, mrOut, lastBeat, silent, swept>>

authRest == <<nextAuthSweep, authLog, httpLeft>>

wsVars == <<clientWs, activeSessions, authRest>>

slVars == <<files, launchers, slLog>>

upVars == <<fn, disk, upLog>>

agVars == <<agent, agLog, p2p>>

brVars == <<browser, wire, brLog>>

scVars == <<sb, term>>

extVars == <<upVars, hook, agVars, brVars, scVars>>

vars == <<hubVars, mrVars, wsVars, slVars, extVars>>

\* ------------------------------------------------------------------ frames
Frame(t, s, st, r, n, l) ==
  [type |-> t, sessionId |-> s, state |-> st, reason |-> r, n |-> n, len |-> l]

FreeConn ==
  [client |-> NULL, session |-> NULL, sock |-> "free", connected |-> FALSE,
   timer |-> FALSE, accepted |-> FALSE, ended |-> FALSE, inq |-> <<>>,
   base |-> 0, buffer |-> 0]

\* ws.send by callback `by` (about session s, pipe k)
Sent(c, by, s, k, frames, wrote) ==
  [to |-> c, by |-> by, sessionId |-> s, conn |-> k, frames |-> frames,
   wrote |-> wrote]

Send(c, by, s, k, frames) == wsSent' = Sent(c, by, s, k, frames, {})

NoSend == wsSent' = Sent(NULL, "none", NULL, 0, <<>>, {})

RECURSIVE SumLen(_)
SumLen(q) == IF q = <<>> THEN 0 ELSE Head(q).len + SumLen(Tail(q))

Min(a, b) == IF a < b THEN a ELSE b

\* ------------------------------------------------------- session registry
\* listSessions: a record older than 30 s ("stale") is unlinked by the scan
\* and left out of the result.
ListSessionsScan(reg) ==
  [s \in Sessions |-> IF reg[s] = "stale" THEN "absent" ELSE reg[s]]

GetSession(reg, s) == reg[s] = "live"

\* ---------------------------------------- session registry, file by file
SESSION_TIMEOUT_MS == 30000

MaxLaunchers == 3          \* launcher processes started in one behaviour
LaunchIds    == 1..MaxLaunchers

NoFile == [kind |-> "none", started |-> 0, lastSeen |-> 0]

\* a file JSON.parse rejects
BadFile == [kind |-> "bad", started |-> 0, lastSeen |-> 0]

\* updateRegistry: the record a launcher writes
SessionInfo(started, lastSeen) ==
  [kind |-> "rec", started |-> started, lastSeen |-> lastSeen]

\* data.lastSeen || data.started || 0
LastSeen(f) ==
  IF f.lastSeen # 0 THEN f.lastSeen ELSE IF f.started # 0 THEN f.started ELSE 0

\* fault: a record of exactly SESSION_TIMEOUT_MS already counts as stale
Stale_AtLimit(f, t) == f.kind = "rec" /\ t - LastSeen(f) >= SESSION_TIMEOUT_MS

\* age > SESSION_TIMEOUT_MS
Stale(f, t) == f.kind = "rec" /\ t - LastSeen(f) > SESSION_TIMEOUT_MS

\* listSessions / listLocalSessions: the ids of the records returned ...
ListSessions(fs, t) == {s \in Sessions : fs[s].kind = "rec" /\ ~Stale(fs[s], t)}

\* ... and the directory the scan leaves behind
ScanUnlink(fs, t) == [s \in Sessions |-> IF Stale(fs[s], t) THEN NoFile ELSE fs[s]]

\* the directory as the hub's callbacks see it
Registry(fs, t) ==
  [s \in Sessions |-> IF fs[s].kind # "rec" THEN "absent"
                      ELSE IF Stale(fs[s], t) THEN "stale" ELSE "live"]

NoLog == [ev |-> "none", who |-> NULL, ids |-> {}, unlinked |-> {}, launcher |-> 0]

ScanLog(who, fs, t) ==
  [ev |-> "scan", who |-> who, ids |-> ListSessions(fs, t),
   unlinked |-> {s \in Sessions : Stale(fs[s], t)}, launcher |-> 0]

LauncherLog(ev, l) ==
  [ev |-> ev, who |-> NULL, ids |-> {}, unlinked |-> {}, launcher |-> l]

NoLauncher ==
  [session |-> NULL, state |-> "free", started |-> 0, timer |-> FALSE,
   registered |-> FALSE, exit |-> ""]

SLIdle ==
  /\ files = [s \in Sessions |-> NoFile]
  /\ launchers = [l \in LaunchIds |-> NoLauncher]
  /\ slLog = NoLog

\* ------------------------------------------------------------ rate limiter
RateReset(c) == now - lastRateReset[c] >= RATE_WINDOW_MS

NewCount(c) == (IF RateReset(c) THEN 0 ELSE messageCount[c]) + 1

Admitted(c) == NewCount(c) <= MAX_MESSAGES_PER_SECOND

RateStep(c) ==
  /\ messageCount' = [messageCount EXCEPT ![c] = NewCount(c)]
  /\ lastRateReset' = [lastRateReset EXCEPT ![c] = IF RateReset(c) THEN now ELSE @]

\* ------------------------------------------------------ hub: pipe helpers
\* writeToPipe: the pipes a write to conn k reaches (none once destroyed)
WriteToPipe(k) ==
  IF conn[k].sock \in {"destroyed", "closed"} THEN {} ELSE {k}

\* cleanupPipeConnection(sessionId, conn): the Map entry of the SESSION is
\* deleted, whichever pipe it holds.
CleanupPipeConnection(c, s) ==
  pipeSockets' = [pipeSockets EXCEPT ![c][s] = 0]

StatusConnected(s) == Frame("status", s, "connected", "", 0, 0)

Disconnected(s, r) == Frame("status", s, "disconnected", r, 0, 0)

Error(s, m) == Frame("error", s, "", m, 0, 0)

\* connectToSession: pipeSockets.has(sessionId)
AlreadyConnected(c, s) ==
  /\ activeSessionId' = [activeSessionId EXCEPT ![c] = s]
  /\ Send(c, "connect_session", s, 0,
          IF conn[pipeSockets[c][s]].connected
            THEN <<StatusConnected(s)>> ELSE <<>>)
  /\ UNCHANGED <<sr, conn, nextConn, pipeSockets, stream>>

\* connectToSession: getSession(sessionId) finds nothing
SessionNotFound(c, s) ==
  /\ sr' = ListSessionsScan(sr)
  /\ Send(c, "connect_session", s, 0, <<Error(s, "Session not found")>>)
  /\ UNCHANGED <<conn, nextConn, pipeSockets, activeSessionId, stream>>

\* connectToSession: net.createConnection, the Map entry, the timeout
DialPipe(c, s) ==
    /\ nextConn <= MaxConns
    /\ sr' = ListSessionsScan(sr)
    /\ conn' = [conn EXCEPT ![nextConn] =
                  [FreeConn EXCEPT !.client = c, !.session = s,
                                   !.sock = "connecting", !.timer = TRUE]]
    /\ nextConn' = nextConn + 1
    /\ pipeSockets' = [pipeSockets EXCEPT ![c][s] = nextConn]
    /\ activeSessionId' = [activeSessionId EXCEPT ![c] = s]
    /\ Send(c, "connect_session", s, nextConn, <<>>)
    /\ stream' = [stream EXCEPT ![c][s] =
                    Append(@, [ev |-> "dial", n |-> 0, conn |-> nextConn])]

\* fault: connectToSession without the pipeSockets.has() early return
ConnectToSession_NoHas(c, s) ==
  IF ~GetSession(sr, s) THEN SessionNotFound(c, s) ELSE DialPipe(c, s)

\* connectToSession(sessionId)
ConnectToSession(c, s) ==
  IF pipeSockets[c][s] # 0 THEN AlreadyConnected(c, s)
  ELSE IF ~GetSession(sr, s) THEN SessionNotFound(c, s)
  ELSE DialPipe(c, s)

\* fault: the frame goes to every connected pipe of the client
ForwardToActive_All(c) ==
  UNION {WriteToPipe(pipeSockets[c][s]) :
           s \in {x \in Sessions : pipeSockets[c][x] # 0
                                   /\ conn[pipeSockets[c][x]].connected}}

\* case 'input' / 'control' / 'resize': the pipes the frame is written to
ForwardToActive(c) ==
  LET a == activeSessionId[c]
      k == IF a = NULL THEN 0 ELSE pipeSockets[c][a]
  IN  IF k # 0 /\ conn[k].connected THEN WriteToPipe(k) ELSE {}

\* the entries of q that are less than a second old at time t
Recent(q, t) == SelectSeq(q, LAMBDA e : t - e.t < RATE_WINDOW_MS)

\* fault: the rate check comes after the dispatch of input frames
RateLimited_Forward(c) ==
  /\ wsSent' = Sent(c, "rate_limit", NULL, 0,
                    <<Error(NULL, "Rate limit exceeded")>>, ForwardToActive(c))
  /\ UNCHANGED <<sr, conn, nextConn, pipeSockets, activeSessionId, stream>>

\* ws.on('message'): messageCount > MAX_MESSAGES_PER_SECOND
RateLimited(c) ==
  /\ Send(c, "rate_limit", NULL, 0, <<Error(NULL, "Rate limit exceeded")>>)
  /\ UNCHANGED <<sr, conn, nextConn, pipeSockets, activeSessionId, stream>>

\* a client WebSocket that passed validateAuth and has its handlers installed
OpenWs ==
  [state |-> "open", isAlive |-> TRUE, unanswered |-> 0, code |-> 0,
   cookie |-> NULL, token |-> "secret", known |-> FALSE]

\* ws.on('message'): the rate limit, then the dispatch
OnMessage(c, Dispatch) ==
  /\ clientWs[c].state = "open"
  /\ quota[c] > 0
  /\ quota' = [quota EXCEPT ![c] = @ - 1]
  /\ RateStep(c)
  /\ recent' = [recent EXCEPT ![c] =
                  Append(Recent(@, now), [t |-> now, ok |-> Admitted(c)])]
  /\ IF Admitted(c)
       THEN Dispatch
       ELSE RateLimited(c) /\ UNCHANGED <<slVars, extVars>>
  /\ UNCHANGED <<produced, ring, now, wsVars>>

ClientConnectSession(c, s) ==
  /\ OnMessage(c, ConnectToSession(c, s))
  /\ lastOk' = IF Admitted(c) /\ (pipeSockets[c][s] # 0 \/ GetSession(sr, s))
                 THEN [lastOk EXCEPT ![c] = s] ELSE lastOk
  /\ UNCHANGED <<mrVars, slVars, extVars>>

ClientInput(c) ==
  /\ OnMessage(c,
       /\ wsSent' = Sent(c, "input", lastOk[c], 0, <<>>, ForwardToActive(c))
       /\ UNCHANGED <<sr, conn, nextConn, pipeSockets, activeSessionId, stream>>)
  /\ UNCHANGED <<lastOk, mrVars, slVars, extVars>>

\* --------------------------------------------------- hub: pipe callbacks
PipeUnchanged == UNCHANGED <<sr, produced, ring, nextConn, activeSessionId,
                             messageCount, lastRateReset, now, quota, lastOk,
                             recent, mrVars, wsVars, slVars, extVars>>

\* connectTimeout fires (10 s after the dial, unless cleared)
ConnectTimeout(k) ==
  LET c == conn[k].client
      s == conn[k].session
  IN  /\ conn[k].timer
      /\ IF ~conn[k].connected
           THEN /\ conn' = [conn EXCEPT ![k].timer = FALSE,
                                        ![k].sock = "destroyed", ![k].inq = <<>>]
                /\ pipeSockets' = [pipeSockets EXCEPT ![c][s] = 0]
                /\ Send(c, "timeout", s, k,
                        <<Error(s, "Connection timeout"),
                          Disconnected(s, "Connection timeout")>>)
           ELSE /\ conn' = [conn EXCEPT ![k].timer = FALSE]
                /\ NoSend
                /\ UNCHANGED pipeSockets
      /\ UNCHANGED stream
      /\ PipeUnchanged

\* pipeSocket.on('connect'); the resize it writes goes to this pipe
PipeConnect(k) ==
  /\ conn[k].sock = "connecting"
  /\ sr[conn[k].session] = "live"
  /\ conn' = [conn EXCEPT ![k].sock = "open", ![k].timer = FALSE,
                          ![k].connected = TRUE]
  /\ NoSend
  /\ UNCHANGED <<pipeSockets, stream>>
  /\ PipeUnchanged

\* the frames of one chunk, stamped with the session id of the closure
Stamp(q, s) == [i \in 1..Len(q) |-> [q[i] EXCEPT !.sessionId = s]]

\* the scrollback and output frames of a chunk, as history entries
RECURSIVE StreamOf(_, _)
StreamOf(q, k) ==
  IF q = <<>> THEN <<>>
  ELSE (IF Head(q).type \in {"scrollback", "output"}
          THEN <<[ev |-> Head(q).type, n |-> Head(q).n, conn |-> k]>>
          ELSE <<>>) \o StreamOf(Tail(q), k)

\* fault: a buffer of exactly MAX_PIPE_BUFFER_SIZE already counts as overflow
PipeData_AtLimit(k, n) ==
  LET c == conn[k].client
      s == conn[k].session
      chunk == SubSeq(conn[k].inq, 1, n)
      rest  == SubSeq(conn[k].inq, n + 1, Len(conn[k].inq))
  IN  /\ conn[k].sock = "open"
      /\ n \in 1..Min(Len(conn[k].inq), MaxChunk)
      /\ IF SumLen(chunk) >= MAX_PIPE_BUFFER_SIZE
           THEN /\ conn' = [conn EXCEPT ![k].sock = "destroyed", ![k].inq = <<>>,
                                        ![k].buffer = SumLen(chunk)]
                /\ Send(c, "data", s, k,
                        <<Error(s, "Buffer overflow - connection reset"),
                          Disconnected(s, "Buffer overflow")>>)
                /\ UNCHANGED stream
           ELSE /\ conn' = [conn EXCEPT ![k].inq = rest]
                /\ Send(c, "data", s, k, Stamp(chunk, s))
                /\ stream' = [stream EXCEPT ![c][s] = @ \o StreamOf(chunk, k)]
      /\ UNCHANGED pipeSockets
      /\ PipeUnchanged

\* pipeSocket.on('data'): a chunk of n whole frames arrives
PipeData(k, n) ==
  LET c == conn[k].client
      s == conn[k].session
      chunk == SubSeq(conn[k].inq, 1, n)
      rest  == SubSeq(conn[k].inq, n + 1, Len(conn[k].inq))
  IN  /\ conn[k].sock = "open"
      /\ n \in 1..Min(Len(conn[k].inq), MaxChunk)
      /\ IF SumLen(chunk) > MAX_PIPE_BUFFER_SIZE
           THEN /\ conn' = [conn EXCEPT ![k].sock = "destroyed", ![k].inq = <<>>,
                                        ![k].buffer = SumLen(chunk)]
                /\ Send(c, "data", s, k,
                        <<Error(s, "Buffer overflow - connection reset"),
                          Disconnected(s, "Buffer overflow")>>)
                /\ UNCHANGED stream
           ELSE /\ conn' = [conn EXCEPT ![k].inq = rest]
                /\ Send(c, "data", s, k, Stamp(chunk, s))
                /\ stream' = [stream EXCEPT ![c][s] = @ \o StreamOf(chunk, k)]
      /\ UNCHANGED pipeSockets
      /\ PipeUnchanged

\* pipeSocket.on('error'): a failed dial or an I/O error; Node destroys the
\* socket and emits 'close' afterwards
PipeError(k) ==
  LET c == conn[k].client
      s == conn[k].session
  IN  /\ conn[k].sock \in {"connecting", "open"}
      /\ conn' = [conn EXCEPT ![k].sock = "destroyed", ![k].inq = <<>>,
                              ![k].timer = FALSE, ![k].connected = FALSE]
      /\ CleanupPipeConnection(c, s)
      /\ Send(c, "error", s, k,
              <<Error(s, "Pipe error"), Disconnected(s, "Pipe error")>>)
      /\ UNCHANGED stream
      /\ PipeUnchanged

\* pipeSocket.on('close'): after a destroy, or after the launcher ended its
\* side and everything it wrote has been read
PipeClose(k) ==
  LET c == conn[k].client
      s == conn[k].session
  IN  /\ \/ conn[k].sock = "destroyed"
         \/ conn[k].sock = "open" /\ conn[k].ended /\ conn[k].inq = <<>>
      /\ conn' = [conn EXCEPT ![k] = [FreeConn EXCEPT !.client = c,
                                        !.session = s, !.sock = "closed"]]
      /\ CleanupPipeConnection(c, s)
      /\ Send(c, "close", s, k, <<Disconnected(s, "Session ended")>>)
      /\ UNCHANGED stream
      /\ PipeUnchanged

\* ---------------------------------------------------------- the launcher
\* peers in the launcher's `clients` set whose socket is still up
Peers(s) ==
  {k \in ConnIds : conn[k].session = s /\ conn[k].accepted
                   /\ conn[k].sock \in {"connecting", "open"}}

LauncherUnchanged == UNCHANGED <<nextConn, pipeSockets, activeSessionId,
                                 messageCount, lastRateReset, now, quota,
                                 stream, lastOk, recent, mrVars, wsVars, slVars, extVars>>

\* net.createServer callback: clients.add, scrollback (if any), status.
\* The scrollback line is as long as the ring it carries.
LauncherAccept(k) ==
  LET s == conn[k].session
  IN  /\ conn[k].sock \in {"connecting", "open"}
      /\ ~conn[k].accepted
      /\ sr[s] = "live"
      /\ conn' = [conn EXCEPT
           ![k].accepted = TRUE,
           ![k].base = produced[s],
           ![k].inq = @ \o
             (IF ring[s] > 0
                THEN <<Frame("scrollback", NULL, "", "", produced[s], ring[s])>>
                ELSE <<>>)
             \o <<Frame("status", NULL, "connected", "", 0, 1)>>]
      /\ NoSend
      /\ UNCHANGED <<sr, produced, ring>>
      /\ LauncherUnchanged

\* the sessions whose child writes and exits in the behaviours explored
Writers == {"s1"}

\* ptyProcess.onData: appendScrollback, broadcast
PtyData(s) ==
  /\ s \in Writers
  /\ sr[s] = "live"
  /\ produced[s] < MaxOut
  /\ produced' = [produced EXCEPT ![s] = @ + 1]
  /\ ring' = [ring EXCEPT ![s] = @ + 1]
  /\ conn' = [k \in ConnIds |->
               IF k \in Peers(s)
                 THEN [conn[k] EXCEPT !.inq =
                         Append(@, Frame("output", NULL, "", "", produced[s] + 1, 1))]
                 ELSE conn[k]]
  /\ NoSend
  /\ UNCHANGED sr
  /\ LauncherUnchanged

\* fault: the peers are ended without the status frame
NotifyPeers_EndOnly(s) ==
  [k \in ConnIds |->
     IF k \in Peers(s) \/ (conn[k].session = s /\ conn[k].sock = "open")
       THEN [conn[k] EXCEPT !.ended = TRUE]
       ELSE conn[k]]

\* ptyProcess.onExit, its loop over `clients`: write the status frame, then
\* end(); a pipe the server had not accepted yet ends with the process
NotifyPeers(s) ==
  [k \in ConnIds |->
     IF k \in Peers(s)
       THEN [conn[k] EXCEPT !.ended = TRUE, !.inq =
               Append(@, Frame("status", NULL, "disconnected", "Process exited", 0, 1))]
       ELSE IF conn[k].session = s /\ conn[k].sock = "open"
         THEN [conn[k] EXCEPT !.ended = TRUE]
         ELSE conn[k]]

\* ptyProcess.onExit: status to every peer, end them, unlink the file, exit
ChildExit(s) ==
  /\ s \in Writers
  /\ sr[s] = "live"
  /\ sr' = [sr EXCEPT ![s] = "absent"]
  /\ conn' = NotifyPeers(s)
  /\ NoSend
  /\ UNCHANGED <<produced, ring>>
  /\ LauncherUnchanged

\* ------------------------------------------------------ machine registry
MachineIds       == {"LOCAL", "A"}
LOCAL_MACHINE_ID == "LOCAL"
MaxAgentSockets  == 2      \* agent WebSockets opened in one behaviour
MaxSessions      == 1      \* sessions an agent:sessions message lists
MaxAgentMsgs     == 1      \* messages one agent socket delivers
MaxListMsgs      == 1      \* list_machines requests of the client
MaxNow           == 120000 \* the clock stops here (ms)
AgentSockets     == 1..MaxAgentSockets

AGENT_HEARTBEAT_TIMEOUT == 45000
AGENT_CLEANUP_INTERVAL  == 15000
STALE_REMOVE_MS         == 3600000

\* no Map entry
NoMachine ==
  [present |-> FALSE, isLocal |-> FALSE, status |-> "none", lastSeen |-> 0,
   ws |-> 0, sessions |-> 0]

\* _registerLocalMachine
RegisterLocalMachine(t) ==
  [present |-> TRUE, isLocal |-> TRUE, status |-> "connected", lastSeen |-> t,
   ws |-> 0, sessions |-> 0]

\* registerAgent: the two refusals
RegisterRefused(m) == m = "" \/ m = LOCAL_MACHINE_ID

\* registerAgent: existing && existing.ws && existing.ws.readyState === 1
ExistingOpen(m) ==
  /\ machines[m].present
  /\ machines[m].ws # 0
  /\ agentWs[machines[m].ws].state = "open"

\* registerAgent: this.machines.set(machineId, {...})
RegisterAgent(ms, m, a, t) ==
  [ms EXCEPT ![m] =
     [present |-> TRUE, isLocal |-> FALSE, status |-> "connected",
      lastSeen |-> t, ws |-> a,
      sessions |-> IF ms[m].present THEN ms[m].sessions ELSE 0]]

\* unregisterAgent
UnregisterAgent(ms, m) ==
  IF m = LOCAL_MACHINE_ID \/ ~ms[m].present THEN ms
  ELSE [ms EXCEPT ![m].status = "disconnected", ![m].ws = 0]

\* fault: a heartbeat brings the record back to connected
UpdateHeartbeat_Revive(ms, m, t) ==
  IF ms[m].present
    THEN [ms EXCEPT ![m].lastSeen = t, ![m].status = "connected"] ELSE ms

\* updateHeartbeat
UpdateHeartbeat(ms, m, t) ==
  IF ms[m].present THEN [ms EXCEPT ![m].lastSeen = t] ELSE ms

\* updateSessions
UpdateSessions(ms, m, n, t) ==
  IF ms[m].present THEN [ms EXCEPT ![m].sessions = n, ![m].lastSeen = t] ELSE ms

\* updateLocalMachine
UpdateLocalMachine(ms, n, t) ==
  IF ms[LOCAL_MACHINE_ID].present
    THEN [ms EXCEPT ![LOCAL_MACHINE_ID].sessions = n,
                    ![LOCAL_MACHINE_ID].lastSeen = t]
    ELSE ms

NotListed == [listed |-> FALSE, status |-> "none", isLocal |-> FALSE, sessionCount |-> 0]

\* listMachines: per machine id its entry of the reply
ListMachines(ms, t) ==
  [m \in MachineIds |->
     IF ~ms[m].present THEN NotListed
     ELSE IF ms[m].status = "disconnected"
             /\ t - ms[m].lastSeen > AGENT_HEARTBEAT_TIMEOUT * 2 THEN NotListed
     ELSE [listed |-> TRUE, status |-> ms[m].status, isLocal |-> ms[m].isLocal,
           sessionCount |-> ms[m].sessions]]

\* _cleanupStaleMachines: the heartbeat of record r has timed out at t
TimedOut(r, t) ==
  r.status = "connected" /\ t - r.lastSeen > AGENT_HEARTBEAT_TIMEOUT

\* _cleanupStaleMachines: the loop body past the isLocal test
SweepRecord(r, t) ==
  LET marked == IF TimedOut(r, t)
                  THEN [r EXCEPT !.status = "disconnected", !.ws = 0] ELSE r
  IN  IF marked.status = "disconnected" /\ t - r.lastSeen > STALE_REMOVE_MS
        THEN NoMachine ELSE marked

\* fault: the sweep does not skip the local machine
CleanupStaleMachines_NoSkip(ms, t) ==
  [m \in MachineIds |-> IF ~ms[m].present THEN ms[m] ELSE SweepRecord(ms[m], t)]

\* _cleanupStaleMachines
CleanupStaleMachines(ms, t) ==
  [m \in MachineIds |->
     IF ~ms[m].present \/ ms[m].isLocal THEN ms[m] ELSE SweepRecord(ms[m], t)]

\* the sockets _cleanupStaleMachines closes
SweepClosed(ms, t) ==
  {ms[m].ws : m \in {x \in MachineIds : ms[x].present /\ ~ms[x].isLocal
                                         /\ TimedOut(ms[x], t) /\ ms[x].ws # 0}}

\* ws.close(code) on the sockets of S; only an open socket starts closing
CloseSockets(aw, S, code) ==
  [a \in AgentSockets |->
     IF a \in S /\ aw[a].state = "open"
       THEN [aw[a] EXCEPT !.state = "closing", !.code = code] ELSE aw[a]]

MrOut(by, a, m, ok, reply) ==
  [by |-> by, ws |-> a, machineId |-> m, success |-> ok, reply |-> reply]

NoReply == [m \in MachineIds |-> NotListed]

NoMrOut == MrOut("none", 0, NULL, FALSE, NoReply)

MRUnchanged == UNCHANGED <<hubVars, wsVars, slVars, extVars>>

\* socket a delivers one more message (bounds the behaviour)
AgentMessage(a) ==
  agentWs[a].state \in {"open", "closing"} /\ agentWs[a].left > 0

Spend(aw, a) == [aw EXCEPT ![a].left = @ - 1]

\* wssAgent.on('connection')
AgentOpen(a) ==
  /\ agentWs[a].state = "idle"
  /\ agentWs' = [agentWs EXCEPT ![a].state = "open"]
  /\ mrOut' = MrOut("connection", a, NULL, FALSE, NoReply)
  /\ UNCHANGED <<machines, nextSweep, lastBeat, silent, swept>>
  /\ MRUnchanged

\* case 'agent:register'
AgentRegister(a, m) ==
  /\ AgentMessage(a)
  /\ IF RegisterRefused(m)
       THEN /\ mrOut' = MrOut("register", a, m, FALSE, NoReply)
            /\ agentWs' = Spend(agentWs, a)
            /\ UNCHANGED <<machines, lastBeat, silent, swept>>
       ELSE /\ agentWs' =
                 [CloseSockets(Spend(agentWs, a),
                               IF ExistingOpen(m) THEN {machines[m].ws} ELSE {},
                               4000)
                    EXCEPT ![a].registeredMachineId = m]
            /\ machines' = RegisterAgent(machines, m, a, now)
            /\ lastBeat' = [lastBeat EXCEPT ![m] = now]
            /\ silent' = [silent EXCEPT ![m] = FALSE]
            /\ swept' = [swept EXCEPT ![m] = FALSE]
            /\ mrOut' = MrOut("register", a, m, TRUE, NoReply)
  /\ UNCHANGED nextSweep
  /\ MRUnchanged

\* case 'agent:sessions' (the machine id is the one the message names)
AgentSessions(a, m, n) ==
  /\ AgentMessage(a)
  /\ agentWs' = Spend(agentWs, a)
  /\ machines' = UpdateSessions(machines, m, n, now)
  /\ mrOut' = MrOut("sessions", a, m, TRUE, NoReply)
  /\ UNCHANGED <<nextSweep, lastBeat, silent, swept>>
  /\ MRUnchanged

\* case 'agent:heartbeat' (the machine id is the one the message names)
AgentHeartbeat(a, m) ==
  /\ AgentMessage(a)
  /\ agentWs' = Spend(agentWs, a)
  /\ machines' = UpdateHeartbeat(machines, m, now)
  /\ lastBeat' = [lastBeat EXCEPT ![m] = now]
  /\ mrOut' = MrOut("heartbeat", a, m, TRUE, NoReply)
  /\ UNCHANGED <<nextSweep, silent, swept>>
  /\ MRUnchanged

\* ws.on('close') of an agent socket
AgentClose(a) ==
  /\ agentWs[a].state \in {"open", "closing"}
  /\ agentWs' = [agentWs EXCEPT ![a].state = "closed"]
  /\ machines' = IF agentWs[a].registeredMachineId # NULL
                   THEN UnregisterAgent(machines, agentWs[a].registeredMachineId)
                   ELSE machines
  /\ mrOut' = MrOut("close", a, agentWs[a].registeredMachineId, TRUE, NoReply)
  /\ UNCHANGED <<nextSweep, lastBeat, silent, swept>>
  /\ MRUnchanged

\* the cleanup interval fires
Sweep ==
  /\ now = nextSweep
  /\ machines' = CleanupStaleMachines(machines, now)
  /\ agentWs' = CloseSockets(agentWs, SweepClosed(machines, now), 4001)
  /\ nextSweep' = nextSweep + AGENT_CLEANUP_INTERVAL
  /\ swept' = [m \in MachineIds |->
                 swept[m] \/ ( /\ machines[m].present /\ ~machines[m].isLocal
                               /\ TimedOut(machines[m], now) )]
  /\ mrOut' = MrOut("sweep", 0, NULL, TRUE, NoReply)
  /\ UNCHANGED <<lastBeat, silent>>
  /\ MRUnchanged

\* case 'list_machines'
ClientListMachines(c) ==
  /\ OnMessage(c,
       /\ sr' = ListSessionsScan(sr)
       /\ Send(c, "list_machines", NULL, 0, <<Frame("machines", NULL, "", "", 0, 0)>>)
       /\ UNCHANGED <<conn, nextConn, pipeSockets, activeSessionId, stream>>)
  /\ IF Admitted(c)
       THEN LET n  == Cardinality({s \in Sessions : sr[s] = "live"})
                ms == UpdateLocalMachine(machines, n, now)
            IN  /\ machines' = ms
                /\ mrOut' = MrOut("list_machines", 0, NULL, TRUE, ListMachines(ms, now))
       ELSE /\ mrOut' = NoMrOut
            /\ UNCHANGED machines
  /\ UNCHANGED <<lastOk, agentWs, nextSweep, lastBeat, silent, swept, slVars, extVars>>

\* time passes: d ms, or less when the cleanup interval is due earlier
Tick(d, max) ==
  LET t == Min(now + d, nextSweep)
  IN  /\ now < nextSweep
      /\ now + d <= max
      /\ now' = t
      /\ recent' = [c \in Clients |-> Recent(recent[c], t)]
      /\ silent' = [m \in MachineIds |->
                      silent[m] \/ ( /\ machines[m].present /\ ~machines[m].isLocal
                                     /\ t - lastBeat[m] >= AGENT_HEARTBEAT_TIMEOUT )]
      /\ NoSend
      /\ mrOut' = NoMrOut
      /\ UNCHANGED <<sr, produced, ring, conn, nextConn, pipeSockets,
                     activeSessionId, messageCount, lastRateReset, quota,
                     stream, lastOk>>
      /\ UNCHANGED <<machines, agentWs, nextSweep, lastBeat, swept, wsVars, slVars, extVars>>

MRInit ==
  /\ machines = [m \in MachineIds |->
                   IF m = LOCAL_MACHINE_ID THEN RegisterLocalMachine(0) ELSE NoMachine]
  /\ agentWs = [a \in AgentSockets |->
                  [state |-> "idle", registeredMachineId |-> NULL, code |-> 0,
                   left |-> MaxAgentMsgs]]
  /\ nextSweep = AGENT_CLEANUP_INTERVAL
  /\ mrOut = NoMrOut
  /\ lastBeat = [m \in MachineIds |-> 0]
  /\ silent = [m \in MachineIds |-> FALSE]
  /\ swept = [m \in MachineIds |-> FALSE]

\* ------------------------------------------------ client WebSockets
Cookies    == {"k1", "k2"}
AUTH_TOKEN == "secret"

AUTH_SESSION_CLEANUP_INTERVAL == 3600000
AUTH_SESSION_MAX_IDLE         == 86400000
Tokens     == {NULL, AUTH_TOKEN, "wrong"}

NoAuthSession == [present |-> FALSE, lastSeen |-> 0]

\* a client WebSocket that has not connected yet
NewWs ==
  [state |-> "new", isAlive |-> FALSE, unanswered |-> 0, code |-> 0,
   cookie |-> NULL, token |-> NULL, known |-> FALSE]

NoAuthLog == [via |-> "none", cookie |-> NULL, idle |-> 0, status |-> 0]

AuthLog(via, cookie, idle, status) ==
  [via |-> via, cookie |-> cookie, idle |-> idle, status |-> status]

WsStart(w) ==
  /\ clientWs = w
  /\ activeSessions = [k \in Cookies |-> NoAuthSession]
  /\ nextAuthSweep = AUTH_SESSION_CLEANUP_INTERVAL
  /\ authLog = NoAuthLog
  /\ httpLeft = 0

\* fault: any session cookie is taken for a known one
ValidateAuth_AnyCookie(cookie, token) ==
  IF cookie # NULL THEN "cookie"
  ELSE IF token = AUTH_TOKEN THEN "token"
  ELSE "invalid"

\* validateAuth: the session cookie first, then the URL token
ValidateAuth(cookie, token) ==
  IF cookie # NULL /\ activeSessions[cookie].present THEN "cookie"
  ELSE IF token = AUTH_TOKEN THEN "token"
  ELSE "invalid"

WsUnchanged ==
  UNCHANGED <<sr, produced, ring, conn, nextConn, pipeSockets, activeSessionId,
              messageCount, now, quota, stream, lastOk, recent, mrVars, slVars, extVars>>

\* wss.on('connection'): validateAuth, then either the refusal or the
\* per-client state, the ping interval and the sessions list
ClientOpen(c, cookie, token) ==
  LET auth == ValidateAuth(cookie, token)
      presented == [cookie |-> cookie, token |-> token,
                    known |-> cookie # NULL /\ activeSessions[cookie].present]
  IN  /\ clientWs[c].state = "new"
      /\ \/ /\ auth = "invalid"
            /\ clientWs' = [clientWs EXCEPT ![c] =
                  [state |-> "refused", isAlive |-> FALSE, unanswered |-> 0,
                   code |-> 4001] @@ presented]
            /\ Send(c, "connection", NULL, 0, <<Error(NULL, "Authentication failed")>>)
            /\ authLog' = AuthLog("invalid", cookie, 0, 4001)
            /\ UNCHANGED <<activeSessions, lastRateReset>>
            /\ UNCHANGED sr
         \/ /\ auth # "invalid"
            /\ \/ /\ auth = "cookie"
                  /\ activeSessions' = [activeSessions EXCEPT ![cookie].lastSeen = now]
                  /\ authLog' = AuthLog("cookie", cookie, now - activeSessions[cookie].lastSeen, 101)
               \/ /\ auth = "token"
                  /\ \E k \in Cookies :
                       /\ ~activeSessions[k].present
                       /\ activeSessions' = [activeSessions EXCEPT ![k] =
                            [present |-> TRUE, lastSeen |-> now]]
                       /\ authLog' = AuthLog("token", k, 0, 101)
            /\ clientWs' = [clientWs EXCEPT ![c] =
                  [state |-> "open", isAlive |-> TRUE, unanswered |-> 0,
                   code |-> 0] @@ presented]
            /\ lastRateReset' = [lastRateReset EXCEPT ![c] = now]
            /\ sr' = ListSessionsScan(sr)
            /\ Send(c, "connection", NULL, 0, <<Frame("sessions", NULL, "", "", 0, 0)>>)
      /\ UNCHANGED <<produced, ring, conn, nextConn, pipeSockets, activeSessionId,
                     messageCount, now, quota, stream, lastOk, recent, mrVars, slVars, extVars,
                     nextAuthSweep, httpLeft>>

\* the files of the client directory a request can name: a page, a static
\* asset (its extension is on the list the handler exempts), a missing page
Pages == {"index.html", "app.js", "nope.html"}

IsStaticAsset(page) == page = "app.js"

Exists(page) == page # "nope.html"

\* https.createServer handler for a client file: validateAuth first, 401
\* unless the request is authenticated or names a static asset, then 200
\* or 404
HttpGet(cookie, token, page) ==
  LET auth   == ValidateAuth(cookie, token)
      status == IF auth = "invalid" /\ ~IsStaticAsset(page) THEN 401
                ELSE IF Exists(page) THEN 200 ELSE 404
  IN  /\ httpLeft > 0
      /\ httpLeft' = httpLeft - 1
      /\ \/ /\ auth = "invalid"
            /\ authLog' = AuthLog("invalid", cookie, 0, status)
            /\ UNCHANGED activeSessions
         \/ /\ auth = "cookie"
            /\ activeSessions' = [activeSessions EXCEPT ![cookie].lastSeen = now]
            /\ authLog' = AuthLog("cookie", cookie,
                                  now - activeSessions[cookie].lastSeen, status)
         \/ /\ auth = "token"
            /\ \E k \in Cookies :
                 /\ ~activeSessions[k].present
                 /\ activeSessions' = [activeSessions EXCEPT ![k] =
                      [present |-> TRUE, lastSeen |-> now]]
                 /\ authLog' = AuthLog("token", k, 0, status)
      /\ NoSend
      /\ UNCHANGED <<clientWs, nextAuthSweep, lastRateReset>>
      /\ WsUnchanged

AuthSweep_KeepsIdle(as, t) == as

\* what the cleanup interval leaves of the auth sessions at time t
AuthSweepAt(as, t) ==
  [k \in Cookies |-> IF as[k].present /\ t - as[k].lastSeen > AUTH_SESSION_MAX_IDLE
                     THEN NoAuthSession ELSE as[k]]

\* setInterval(..., AUTH_SESSION_CLEANUP_INTERVAL): the hourly sweep
AuthSweep ==
  /\ now = nextAuthSweep
  /\ activeSessions' = AuthSweepAt(activeSessions, now)
  /\ nextAuthSweep' = now + AUTH_SESSION_CLEANUP_INTERVAL
  /\ authLog' = NoAuthLog
  /\ NoSend
  /\ UNCHANGED <<clientWs, httpLeft, lastRateReset>>
  /\ WsUnchanged

\* time passes, never past a sweep that is due
AuthTick(d, max) ==
  /\ now < nextAuthSweep
  /\ now + d <= max
  /\ now' = Min(now + d, nextAuthSweep)
  /\ recent' = [c \in Clients |-> Recent(recent[c], now')]
  /\ authLog' = NoAuthLog
  /\ NoSend
  /\ UNCHANGED <<sr, produced, ring, conn, nextConn, pipeSockets, activeSessionId,
                 messageCount, lastRateReset, quota, stream, lastOk, mrVars, slVars, extVars,
                 clientWs, activeSessions, nextAuthSweep, httpLeft>>

\* a message arrives on a socket the hub refused: no handler is installed
ClientMessageRefused(c) ==
  /\ clientWs[c].state = "refused"
  /\ quota[c] > 0
  /\ quota' = [quota EXCEPT ![c] = @ - 1]
  /\ NoSend
  /\ UNCHANGED <<sr, produced, ring, conn, nextConn, pipeSockets, activeSessionId,
                 messageCount, lastRateReset, now, stream, lastOk, recent,
                 mrVars, wsVars, slVars, extVars>>

\* case 'list_sessions'
ClientListSessions(c) ==
  /\ OnMessage(c,
       /\ sr' = ListSessionsScan(sr)
       /\ files' = ScanUnlink(files, now)
       /\ slLog' = ScanLog(c, files, now)
       /\ Send(c, "list_sessions", NULL, 0, <<Frame("sessions", NULL, "", "", 0, 0)>>)
       /\ UNCHANGED <<conn, nextConn, pipeSockets, activeSessionId, stream, launchers>>)
  /\ UNCHANGED <<lastOk, mrVars, extVars>>

\* fault: the socket is terminated only when a second ping in a row is missed
WsPing_TwoMissed(c) ==
  /\ clientWs[c].state = "open"
  /\ clientWs' = [clientWs EXCEPT ![c] =
       IF ~@.isAlive /\ @.unanswered >= 2
         THEN [@ EXCEPT !.state = "terminated"]
         ELSE [@ EXCEPT !.isAlive = FALSE, !.unanswered = @ + 1]]
  /\ NoSend
  /\ UNCHANGED <<lastRateReset, activeSessions, authRest>>
  /\ WsUnchanged

\* wsPingInterval callback (every 30 s)
WsPing(c) ==
  /\ clientWs[c].state = "open"
  /\ clientWs' = [clientWs EXCEPT ![c] =
       IF ~@.isAlive
         THEN [@ EXCEPT !.state = "terminated"]
         ELSE [@ EXCEPT !.isAlive = FALSE, !.unanswered = @ + 1]]
  /\ NoSend
  /\ UNCHANGED <<lastRateReset, activeSessions, authRest>>
  /\ WsUnchanged

\* ws.on('pong')
ClientPong(c) ==
  /\ clientWs[c].state = "open"
  /\ clientWs' = [clientWs EXCEPT ![c].isAlive = TRUE, ![c].unanswered = 0]
  /\ NoSend
  /\ UNCHANGED <<lastRateReset, activeSessions, authRest>>
  /\ WsUnchanged

\* ws.on('close') / ws.on('error') of a client socket: cleanup()
ClientWsClose(c) ==
  LET mine == {pipeSockets[c][s] : s \in Sessions} \ {0}
  IN  /\ clientWs[c].state \in {"open", "refused", "terminated"}
      /\ clientWs' = [clientWs EXCEPT ![c].state = "closed"]
      /\ IF clientWs[c].state = "refused"
           THEN UNCHANGED <<conn, pipeSockets>>
           ELSE /\ conn' = [k \in ConnIds |->
                      IF k \in mine
                        THEN [conn[k] EXCEPT !.connected = FALSE,
                                             !.sock = IF @ \in {"connecting", "open"}
                                                        THEN "destroyed" ELSE @,
                                             !.inq = <<>>]
                        ELSE conn[k]]
                /\ pipeSockets' = [pipeSockets EXCEPT ![c] = [s \in Sessions |-> 0]]
      /\ NoSend
      /\ UNCHANGED <<sr, produced, ring, nextConn, activeSessionId, messageCount,
                     lastRateReset, now, quota, stream, lastOk, recent, mrVars,
                     activeSessions, authRest, slVars, extVars>>

\* agent.js, projectRefreshTimer: sendProjectsToHub, sendSessionsToHub
AgentRefresh ==
  /\ files' = ScanUnlink(files, now)
  /\ sr' = Registry(files', now)
  /\ slLog' = ScanLog("agent", files, now)
  /\ NoSend
  /\ UNCHANGED <<produced, ring, conn, nextConn, pipeSockets, activeSessionId,
                 messageCount, lastRateReset, now, quota, stream, lastOk, recent,
                 mrVars, wsVars, launchers, extVars>>

\* --------------------------------------------------- start_folder_session
Names          == {"s1", "../s1", "con", "s3"}   \* folderName of a request
ProjectFolders == {"s1", "s2"}                   \* folders under PROJECTS_BASE_DIR

\* sanitizeProjectName: other characters are dropped, reserved names refused
SanitizeProjectName(name) ==
  CASE name = "../s1" -> "s1"
    [] name = "con"   -> NULL
    [] OTHER          -> name

StartResult(folder, success, alreadyRunning, error) ==
  [type |-> "start_folder_session_result", folderName |-> folder,
   success |-> success, alreadyRunning |-> alreadyRunning, error |-> error]

Running(s) ==
  {l \in LaunchIds : launchers[l].session = s
                     /\ launchers[l].state \in {"starting", "listening"}}

Listening(s) ==
  {l \in LaunchIds : launchers[l].session = s /\ launchers[l].state = "listening"}

FreeLaunchers == {l \in LaunchIds : launchers[l].state = "free"}

\* handleStartFolderSession
HandleStartFolderSession(c, name) ==
  LET safeName == SanitizeProjectName(name)
      l == CHOOSE x \in FreeLaunchers : \A y \in FreeLaunchers : x <= y
      Reply(frame) == wsSent' = Sent(c, "start_folder_session", safeName, 0, <<frame>>, {})
  IN  /\ IF safeName = NULL
           THEN /\ Reply(StartResult(name, FALSE, FALSE, "Invalid folder name"))
                /\ slLog' = NoLog
                /\ UNCHANGED <<sr, files, launchers>>
           ELSE IF safeName \notin ProjectFolders
           THEN /\ Reply(StartResult(safeName, FALSE, FALSE, "Folder does not exist"))
                /\ slLog' = NoLog
                /\ UNCHANGED <<sr, files, launchers>>
           ELSE /\ files' = ScanUnlink(files, now)
                /\ sr' = ListSessionsScan(sr)
                /\ IF safeName \in ListSessions(files, now)
                     THEN /\ Reply(StartResult(safeName, TRUE, TRUE, ""))
                          /\ slLog' = [ScanLog(c, files, now) EXCEPT !.ev = "start"]
                          /\ UNCHANGED launchers
                     ELSE /\ FreeLaunchers # {}
                          /\ launchers' = [launchers EXCEPT ![l] =
                               [NoLauncher EXCEPT !.session = safeName,
                                                  !.state = "starting",
                                                  !.started = now]]
                          /\ Reply(StartResult(safeName, TRUE, FALSE, ""))
                          /\ slLog' = [ScanLog(c, files, now) EXCEPT
                                         !.ev = "start", !.launcher = l]
      /\ UNCHANGED <<conn, nextConn, pipeSockets, activeSessionId, stream>>

\* case 'start_folder_session'
ClientStartFolderSession(c, name) ==
  /\ OnMessage(c, HandleStartFolderSession(c, name))
  /\ UNCHANGED <<lastOk, mrVars, extVars>>

\* -------------------------------------------------- the launcher process
SLUnchanged ==
  UNCHANGED <<produced, ring, nextConn, pipeSockets, activeSessionId,
              messageCount, lastRateReset, now, quota, stream, lastOk, recent,
              mrVars, wsVars, extVars>>

\* updateRegistry: writeFileSync(registryFile, sessionInfo)
WriteRegistry(l) ==
  /\ files' = [files EXCEPT ![launchers[l].session] =
                 SessionInfo(launchers[l].started, now)]
  /\ sr' = Registry(files', now)

\* fault: the registry update interval outlives cleanup
Cleanup_KeepsTimer(l, how) ==
  /\ launchers' = [launchers EXCEPT ![l].state = "exited", ![l].exit = how]
  /\ files' = [files EXCEPT ![launchers[l].session] = NoFile]
  /\ sr' = Registry(files', now)
  /\ slLog' = LauncherLog("exit", l)

\* cleanup(), then process.exit: the interval is cleared, the registry file
\* unlinked if it exists, the pipe server closed
Cleanup(l, how) ==
  /\ launchers' = [launchers EXCEPT ![l].state = "exited", ![l].timer = FALSE,
                                    ![l].exit = how]
  /\ files' = [files EXCEPT ![launchers[l].session] = NoFile]
  /\ sr' = Registry(files', now)
  /\ slLog' = LauncherLog("exit", l)

\* server.listen callback: updateRegistry, then the interval is started
ServerListen(l) ==
  /\ launchers[l].state = "starting"
  /\ Listening(launchers[l].session) = {}
  /\ launchers' = [launchers EXCEPT ![l].state = "listening", ![l].timer = TRUE,
                                    ![l].registered = TRUE]
  /\ WriteRegistry(l)
  /\ slLog' = LauncherLog("write", l)
  /\ NoSend
  /\ UNCHANGED conn
  /\ SLUnchanged

\* server.on('error'): the pipe name is taken by a launcher of the same id
ServerError(l) ==
  /\ launchers[l].state = "starting"
  /\ Listening(launchers[l].session) # {}
  /\ Cleanup(l, "error")
  /\ NoSend
  /\ UNCHANGED conn
  /\ SLUnchanged

\* registryUpdateTimer fires: updateRegistry
UpdateRegistry(l) ==
  /\ launchers[l].timer
  /\ WriteRegistry(l)
  /\ slLog' = LauncherLog("write", l)
  /\ NoSend
  /\ UNCHANGED <<conn, launchers>>
  /\ SLUnchanged

\* process.on('SIGINT') / process.on('SIGTERM'): kill the child, cleanup, exit
Shutdown(l) ==
  /\ launchers[l].state \in {"starting", "listening"}
  /\ Cleanup(l, "signal")
  /\ NoSend
  /\ UNCHANGED conn
  /\ SLUnchanged

\* ptyProcess.onExit, as the launcher runs it: notify and end the peers,
\* cleanup, exit
LauncherPtyExit(l) ==
  /\ launchers[l].state \in {"starting", "listening"}
  /\ conn' = NotifyPeers(launchers[l].session)
  /\ Cleanup(l, "child")
  /\ NoSend
  /\ SLUnchanged

\* time passes
SLTick(d, max) ==
  /\ now + d <= max
  /\ now' = now + d
  /\ sr' = Registry(files, now')
  /\ recent' = [c \in Clients |-> Recent(recent[c], now')]
  /\ slLog' = NoLog
  /\ NoSend
  /\ UNCHANGED <<produced, ring, conn, nextConn, pipeSockets, activeSessionId,
                 messageCount, lastRateReset, quota, stream, lastOk, mrVars,
                 wsVars, files, launchers, extVars>>

\* ------------------------------------------------------- file uploads
\* A string is the sequence of its characters.
Chars == {"a", ".", " ", "/", "\\", ":"}

NoUpload == [filename |-> << >>, session |-> NULL, result |-> "none", path |-> << >>]

Separators == {"/", "\\"}

Reserved == {"<", ">", ":", "\"", "/", "\\", "|", "?", "*"}

Blank == {" ", "."}

MAX_NAME_LENGTH == 255

\* the greatest index of s holding a character of S, 0 if there is none
LastIndex(s, S) ==
  LET at == {i \in 1..Len(s) : s[i] \in S}
  IN  IF at = {} THEN 0 ELSE CHOOSE i \in at : \A j \in at : j <= i

\* String.prototype.slice(0, end): a negative end counts from the end
Slice(s, end) ==
  LET e == IF end < 0 THEN (IF Len(s) + end < 0 THEN 0 ELSE Len(s) + end)
           ELSE Min(end, Len(s))
  IN  SubSeq(s, 1, e)

\* filename.split(/[/\\]/).pop()
Basename(s) == SubSeq(s, LastIndex(s, Separators) + 1, Len(s))

\* name.replace(/[<>:"/\\|?*\x00-\x1f]/g, '_')
ReplaceReserved(s) == [i \in 1..Len(s) |-> IF s[i] \in Reserved THEN "_" ELSE s[i]]

\* name.replace(/^[\s.]+|[\s.]+$/g, '')
Trim(s) ==
  LET keep == {i \in 1..Len(s) : s[i] \notin Blank}
  IN  IF keep = {} THEN << >>
      ELSE SubSeq(s, CHOOSE i \in keep : \A j \in keep : i <= j, LastIndex(s, Chars \ Blank))

\* the truncation to 255 characters that keeps the extension
Truncate(s) ==
  LET lastDot == LastIndex(s, {"."}) - 1
      ext     == IF lastDot > 0 THEN SubSeq(s, lastDot + 1, Len(s)) ELSE << >>
  IN  IF Len(s) > MAX_NAME_LENGTH
      THEN Slice(s, MAX_NAME_LENGTH - Len(ext)) \o ext
      ELSE s

SanitizeFilename_Raw(filename) == filename

\* sanitizeFilename; the empty sequence stands for null (no caller tells
\* null from the empty string)
SanitizeFilename(filename) ==
  LET name == Trim(ReplaceReserved(Basename(filename)))
  IN  IF filename = << >> THEN << >>
      ELSE IF name = << >> THEN << >>
      ELSE Truncate(name)

NoFn == [x |-> << >>, out |-> << >>, calls |-> 0]

\* sanitizeFilename applied to what the previous call returned
SanitizeAgain ==
  /\ fn.calls < 2
  /\ fn' = [x |-> fn.out, out |-> SanitizeFilename(fn.out), calls |-> fn.calls + 1]
  /\ NoSend
  /\ UNCHANGED <<sr, produced, ring, conn, nextConn, pipeSockets, activeSessionId,
                 messageCount, lastRateReset, now, quota, stream, lastOk, recent,
                 mrVars, wsVars, slVars, disk, upLog, hook, agVars, brVars, scVars>>

UPLOAD_ENABLED  == TRUE
MAX_UPLOAD_SIZE == 10485760

\* session.cwd, as the launcher wrote it to the registry file
Cwd(s) == IF s = "s1" THEN <<"/", "w", "/", "p">>
          ELSE IF s = "s2" THEN <<"/", "w", "/", "p", "q">>
          ELSE <<"/", "w", "/", "r">>

\* the segments between the path separators
RECURSIVE SplitPath(_)
SplitPath(s) ==
  LET at == {i \in 1..Len(s) : s[i] = "/"}
      i  == CHOOSE x \in at : \A y \in at : x <= y
  IN  IF at = {} THEN <<s>>
      ELSE <<SubSeq(s, 1, i - 1)>> \o SplitPath(SubSeq(s, i + 1, Len(s)))

\* path normalization: empty and '.' segments vanish, '..' removes the
\* segment before it, and stays at the root of an absolute path
RECURSIVE Resolve(_, _)
Resolve(parts, acc) ==
  IF parts = << >> THEN acc
  ELSE LET h == Head(parts)
       IN  IF h = << >> \/ h = <<".">> THEN Resolve(Tail(parts), acc)
           ELSE IF h = <<".", ".">>
           THEN Resolve(Tail(parts), IF acc = << >> THEN acc
                                     ELSE SubSeq(acc, 1, Len(acc) - 1))
           ELSE Resolve(Tail(parts), Append(acc, h))

RECURSIVE Render(_)
Render(parts) ==
  IF parts = << >> THEN << >> ELSE <<"/">> \o Head(parts) \o Render(Tail(parts))

\* path.join(cwd, name) for an absolute cwd
Join(cwd, name) ==
  LET parts == Resolve(SplitPath(cwd \o <<"/">> \o name), << >>)
  IN  IF parts = << >> THEN <<"/">> ELSE Render(parts)

\* String.prototype.startsWith
StartsWith(s, prefix) ==
  Len(s) >= Len(prefix) /\ SubSeq(s, 1, Len(prefix)) = prefix

UploadResult(target, success, filename, error) ==
  [type |-> "upload_result", sessionId |-> target, success |-> success,
   filename |-> filename, error |-> error]

\* handleFileUpload: size is the length of the decoded data, -1 when the
\* message carries no data that can be decoded
HandleFileUpload(c, sessionId, filename, size) ==
  LET target   == IF sessionId # NULL THEN sessionId ELSE activeSessionId[c]
      found    == target # NULL /\ GetSession(sr, target)
      safeName == SanitizeFilename(filename)
      destPath == Join(Cwd(target), safeName)
      Reply(name, ok, error) ==
        wsSent' = Sent(c, "upload_file", target, 0,
                       <<UploadResult(target, ok, name, error)>>, {})
      Log(result, path) ==
        upLog' = [filename |-> filename, session |-> target,
                  result |-> result, path |-> path]
      Refuse(name, error) ==
        Reply(name, FALSE, error) /\ Log(error, << >>) /\ UNCHANGED disk
  IN  /\ IF ~UPLOAD_ENABLED
           THEN Refuse(filename, "File uploads are disabled") /\ UNCHANGED sr
           ELSE /\ sr' = ListSessionsScan(sr)
                /\ IF ~found THEN Refuse(filename, "Session not found")
                   ELSE IF safeName = << >> THEN Refuse(filename, "Invalid filename")
                   ELSE IF size < 0 THEN Refuse(safeName, "Invalid file data")
                   ELSE IF size > MAX_UPLOAD_SIZE
                   THEN Refuse(safeName, "File exceeds maximum size")
                   ELSE IF ~StartsWith(destPath, Cwd(target))
                   THEN Refuse(safeName, "Invalid destination path")
                   ELSE \/ /\ disk' = disk \cup {destPath}
                           /\ Reply(safeName, TRUE, "")
                           /\ Log("saved", destPath)
                        \/ Refuse(safeName, "Failed to save file")
      /\ UNCHANGED <<conn, nextConn, pipeSockets, activeSessionId, stream, fn, hook, agVars, brVars, scVars>>

\* case 'upload_file'
ClientUploadFile(c, sessionId, filename, size) ==
  /\ OnMessage(c, HandleFileUpload(c, sessionId, filename, size))
  /\ UNCHANGED <<lastOk, mrVars, slVars>>

UpIdle ==
  /\ fn = NoFn
  /\ disk = {}
  /\ upLog = NoUpload

\* ------------------------------------------------------- the webhook
\* 'sha256=' and the 64 hex digits of the HMAC
DIGEST_LENGTH == 71

Bodies == {"push", "not json"}

\* an x-hub-signature-256 header: its length, and the body whose HMAC under
\* the secret it spells ("junk": of none)
NoSignature == [len |-> 0, of |-> "none"]

Signatures ==
  {NoSignature} \cup
  {[len |-> n, of |-> "junk"] : n \in {1, DIGEST_LENGTH - 1, DIGEST_LENGTH, DIGEST_LENGTH + 1}}
  \cup {[len |-> DIGEST_LENGTH, of |-> b] : b \in Bodies}

\* crypto.timingSafeEqual: throws unless both buffers have the same length
TimingSafeEqual(body, signature) ==
  IF signature.len # DIGEST_LENGTH THEN "throws"
  ELSE IF signature.of = body THEN "true" ELSE "false"

\* verifyGitHubSignature
VerifyGitHubSignature(secret, body, signature) ==
  IF ~secret THEN "true"
  ELSE IF signature = NoSignature THEN "false"
  ELSE TimingSafeEqual(body, signature)

NoHook(secret, n) ==
  [secret |-> secret, up |-> TRUE, left |-> n, body |-> "none",
   signature |-> NoSignature, event |-> "none", status |-> 0, pulled |-> FALSE]

\* handleGitHubWebhook, from the request to the end of the 'end' callback;
\* an exception thrown in the callback is caught by nothing and ends the
\* process
HandleGitHubWebhook(body, signature, event) ==
  LET verified == VerifyGitHubSignature(hook.secret, body, signature)
      Done(status, pulled, up) ==
        hook' = [hook EXCEPT !.left = @ - 1, !.body = body, !.signature = signature,
                             !.event = event, !.status = status, !.pulled = pulled,
                             !.up = up]
  IN  /\ hook.up
      /\ hook.left > 0
      /\ IF hook.secret /\ verified = "throws" THEN Done(0, FALSE, FALSE)
         ELSE IF hook.secret /\ verified = "false" THEN Done(401, FALSE, TRUE)
         ELSE IF body = "not json" THEN Done(400, FALSE, TRUE)
         ELSE IF event # "push" THEN Done(200, FALSE, TRUE)
         ELSE Done(200, TRUE, TRUE) \/ Done(500, TRUE, TRUE)
      /\ NoSend
      /\ UNCHANGED <<sr, produced, ring, conn, nextConn, pipeSockets, activeSessionId,
                     messageCount, lastRateReset, now, quota, stream, lastOk, recent,
                     mrVars, wsVars, slVars, upVars, agVars, brVars, scVars>>

\* ------------------------------------------- the agent's hub connection
RECONNECT_DELAY          == 5000
HEARTBEAT_INTERVAL       == 15000
PROJECT_REFRESH_INTERVAL == 30000

MaxHubSockets == 3         \* hub WebSockets the agent creates in one behaviour
HubSockIds    == 1..MaxHubSockets

NoTimer == [state |-> "null", due |-> 0]

NoIntervals == [hb |-> NoTimer, pr |-> NoTimer]

AgentBoot ==
  [started |-> FALSE, isShuttingDown |-> FALSE, exited |-> FALSE,
   sockets |-> [k \in HubSockIds |-> "none"], hubSocket |-> 0,
   hubReconnectTimer |-> NoTimer,
   intervals |-> [k \in HubSockIds |-> NoIntervals],
   heartbeatTimer |-> 0, projectRefreshTimer |-> 0, closedAt |-> -1]

AgLog(ev, sock, to) == [ev |-> ev, sock |-> sock, to |-> to]

AgentUnchanged ==
  UNCHANGED <<sr, produced, ring, conn, nextConn, pipeSockets, activeSessionId,
              messageCount, lastRateReset, quota, stream, lastOk, recent,
              mrVars, wsVars, slVars, upVars, hook, brVars, p2p, scVars>>

FreeHubSocks == {k \in HubSockIds : agent.sockets[k] = "none"}

\* connectToHub, applied to the agent record a: nothing when shutting down
\* or when hubSocket is open, else a new WebSocket k
ConnectToHub(a, k) ==
  IF a.isShuttingDown THEN a
  ELSE IF a.hubSocket # 0 /\ a.sockets[a.hubSocket] = "open" THEN a
  ELSE [a EXCEPT !.sockets[k] = "connecting", !.hubSocket = k]

\* cleanup: both intervals cleared and forgotten
AgentCleanup(a) ==
  LET a1 == IF a.heartbeatTimer # 0
              THEN [a EXCEPT !.intervals[a.heartbeatTimer].hb.state = "cleared",
                             !.heartbeatTimer = 0]
              ELSE a
  IN  IF a1.projectRefreshTimer # 0
        THEN [a1 EXCEPT !.intervals[a1.projectRefreshTimer].pr.state = "cleared",
                        !.projectRefreshTimer = 0]
        ELSE a1

ScheduleHubReconnect_Now(a, t) ==
  IF a.isShuttingDown THEN a
  ELSE [a EXCEPT !.hubReconnectTimer = [state |-> "armed", due |-> t]]

\* scheduleHubReconnect at time t: the timer is replaced by a new one
ScheduleHubReconnect(a, t) ==
  IF a.isShuttingDown THEN a
  ELSE [a EXCEPT !.hubReconnectTimer = [state |-> "armed", due |-> t + RECONNECT_DELAY]]

\* server.listen callback: the first connectToHub
AgentListen ==
  /\ ~agent.started /\ ~agent.exited
  /\ \E k \in FreeHubSocks :
       /\ \A j \in FreeHubSocks : k <= j
       /\ agent' = ConnectToHub([agent EXCEPT !.started = TRUE], k)
       /\ agLog' = AgLog("dial", agent'.hubSocket, 0)
  /\ NoSend
  /\ UNCHANGED now
  /\ AgentUnchanged

\* hubSocket.on('open'): register, projects and sessions are sent on
\* whatever hubSocket holds now, then both intervals are restarted
HubOpen(k) ==
  LET to == IF agent.hubSocket # 0 /\ agent.sockets[agent.hubSocket] = "connecting"
              THEN agent.hubSocket ELSE 0
      a0 == [agent EXCEPT !.sockets[k] = "open"]
      a1 == IF a0.heartbeatTimer # 0
              THEN [a0 EXCEPT !.intervals[a0.heartbeatTimer].hb.state = "cleared"]
              ELSE a0
      a2 == [a1 EXCEPT !.intervals[k].hb =
                          [state |-> "running", due |-> now + HEARTBEAT_INTERVAL],
                       !.heartbeatTimer = k]
      a3 == IF a2.projectRefreshTimer # 0
              THEN [a2 EXCEPT !.intervals[a2.projectRefreshTimer].pr.state = "cleared"]
              ELSE a2
  IN  /\ ~agent.exited
      /\ agent.sockets[k] = "connecting"
      /\ agent' = [a3 EXCEPT !.intervals[k].pr =
                               [state |-> "running", due |-> now + PROJECT_REFRESH_INTERVAL],
                             !.projectRefreshTimer = k]
      /\ agLog' = AgLog("open", k, to)
      /\ NoSend
      /\ UNCHANGED now
      /\ AgentUnchanged

\* hubSocket.on('close'), after a failed dial, a close by the hub, a lost
\* network or the agent's own close: cleanup, then scheduleHubReconnect
HubSocketClose(k) ==
  /\ ~agent.exited
  /\ agent.sockets[k] \in {"connecting", "open", "closing"}
  /\ agent' = [ScheduleHubReconnect(AgentCleanup([agent EXCEPT !.sockets[k] = "closed"]), now)
                 EXCEPT !.closedAt = now]
  /\ agLog' = AgLog("close", k, 0)
  /\ NoSend
  /\ UNCHANGED now
  /\ AgentUnchanged

\* the reconnect timeout fires: connectToHub
ReconnectFire ==
  /\ ~agent.exited
  /\ agent.hubReconnectTimer.state = "armed"
  /\ now = agent.hubReconnectTimer.due
  /\ \E k \in FreeHubSocks :
       /\ \A j \in FreeHubSocks : k <= j
       /\ agent' = ConnectToHub([agent EXCEPT !.hubReconnectTimer.state = "fired"], k)
       /\ agLog' = AgLog(IF agent'.hubSocket = k THEN "dial" ELSE "nodial", k, 0)
  /\ NoSend
  /\ UNCHANGED now
  /\ AgentUnchanged

\* the heartbeat interval of socket k fires
HeartbeatFire(k) ==
  /\ ~agent.exited
  /\ agent.intervals[k].hb.state = "running"
  /\ now = agent.intervals[k].hb.due
  /\ agent' = [agent EXCEPT !.intervals[k].hb.due = now + HEARTBEAT_INTERVAL]
  /\ agLog' = AgLog("heartbeat", k,
                    IF agent.hubSocket # 0 /\ agent.sockets[agent.hubSocket] = "open"
                      THEN agent.hubSocket ELSE 0)
  /\ NoSend
  /\ UNCHANGED now
  /\ AgentUnchanged

\* the project refresh interval of socket k fires
RefreshFire(k) ==
  /\ ~agent.exited
  /\ agent.intervals[k].pr.state = "running"
  /\ now = agent.intervals[k].pr.due
  /\ agent' = [agent EXCEPT !.intervals[k].pr.due = now + PROJECT_REFRESH_INTERVAL]
  /\ agLog' = AgLog("refresh", k,
                    IF agent.hubSocket # 0 /\ agent.sockets[agent.hubSocket] = "open"
                      THEN agent.hubSocket ELSE 0)
  /\ NoSend
  /\ UNCHANGED now
  /\ AgentUnchanged

\* process.on('SIGINT')
AgentSigint ==
  LET a0 == AgentCleanup([agent EXCEPT !.isShuttingDown = TRUE])
      a1 == IF a0.hubReconnectTimer.state = "armed"
              THEN [a0 EXCEPT !.hubReconnectTimer.state = "cleared"] ELSE a0
  IN  /\ ~agent.exited /\ ~agent.isShuttingDown
      /\ agent' = IF a1.hubSocket # 0 /\ a1.sockets[a1.hubSocket] \in {"connecting", "open"}
                    THEN [a1 EXCEPT !.sockets[a1.hubSocket] = "closing"] ELSE a1
      /\ agLog' = AgLog("sigint", agent.hubSocket, 0)
      /\ NoSend
      /\ UNCHANGED now
      /\ AgentUnchanged

\* process.exit, from server.close's callback or the 5 s timeout
AgentExit ==
  /\ agent.isShuttingDown /\ ~agent.exited
  /\ agent' = [agent EXCEPT !.exited = TRUE]
  /\ agLog' = AgLog("exit", 0, 0)
  /\ NoSend
  /\ UNCHANGED now
  /\ AgentUnchanged

AgentDue ==
  {agent.hubReconnectTimer.due : x \in {1} \cap
     (IF agent.hubReconnectTimer.state = "armed" THEN {1} ELSE {})}
  \cup {agent.intervals[k].hb.due : k \in {j \in HubSockIds : agent.intervals[j].hb.state = "running"}}
  \cup {agent.intervals[k].pr.due : k \in {j \in HubSockIds : agent.intervals[j].pr.state = "running"}}

\* time passes, never past a timer that is due
AgentTick(d, max) ==
  /\ ~agent.exited
  /\ now + d <= max
  /\ \A t \in AgentDue : now + d <= t
  /\ now' = now + d
  /\ agLog' = AgLog("tick", 0, 0)
  /\ NoSend
  /\ UNCHANGED <<agent, recent>>
  /\ AgentUnchanged

\* ------------------------------------------- the agent's P2P endpoint
MaxP2PPipes == 3           \* pipes one P2P client dials

P2PPipeIds == 1..MaxP2PPipes

\* listLocalSessions: the sessions registered on the agent's machine
LocalSessions == {"s1", "s2"}

NoPipe == [session |-> NULL, state |-> "none"]

P2PFrame(type, state, s) == [type |-> type, state |-> state, sessionId |-> s]

\* wss.on('connection'): activeSessionId, pipeSocket and the sockets dialled
\* so far; then what the latest callback did: the pipe it wrote to, the
\* frames it sent, the pipe the latest successful connect_session dialled
\* and whether the client was attached to another session at that time
P2PBoot ==
  [up |-> TRUE, activeSessionId |-> NULL, pipeSocket |-> 0,
   pipes |-> [k \in P2PPipeIds |-> NoPipe],
   target |-> 0, switched |-> FALSE,
   ev |-> "none", wrote |-> 0, sent |-> << >>]

P2PUnchanged ==
  UNCHANGED <<hubVars, mrVars, wsVars, slVars, upVars, hook, brVars, agent, agLog, scVars>>

\* a socket that is neither destroyed nor closed
Alive(q, k) == q.pipes[k].state \in {"connecting", "connected"}

\* pipeSocket.destroy(): 'close' is emitted later
Destroy(pipes, k) ==
  IF pipes[k].state \in {"connecting", "connected"}
    THEN [pipes EXCEPT ![k].state = "destroyed"] ELSE pipes

\* connectToLocalSession
ConnectToLocalSession(s) ==
  LET k  == CHOOSE j \in P2PPipeIds :
              /\ p2p.pipes[j] = NoPipe
              /\ \A i \in P2PPipeIds : p2p.pipes[i] = NoPipe => j <= i
      old == p2p.pipeSocket
      p1 == IF old # 0 THEN Destroy(p2p.pipes, old) ELSE p2p.pipes
  IN  /\ p2p.up
      /\ \E j \in P2PPipeIds : p2p.pipes[j] = NoPipe
      /\ p2p' =
           IF s \notin LocalSessions
             THEN [p2p EXCEPT !.ev = "connect_session", !.wrote = 0,
                     !.sent = <<P2PFrame("error", "", s),
                                P2PFrame("status", "disconnected", s)>>]
             ELSE [p2p EXCEPT !.activeSessionId = s, !.pipeSocket = k,
                     !.pipes = [p1 EXCEPT ![k] = [session |-> s, state |-> "connecting"]],
                     !.target = k,
                     !.switched = old # 0 /\ p2p.pipes[old].state = "connected"
                                  /\ p2p.pipes[old].session # s,
                     !.ev = "connect_session", !.wrote = 0, !.sent = << >>]
      /\ P2PUnchanged

\* pipeSocket.on('connect'): the status frame, then the initial resize is
\* written to pipeSocket; when pipeSocket is null the callback throws, and
\* the agent has no handler for uncaught exceptions
P2PPipeConnect(k) ==
  /\ p2p.up
  /\ p2p.pipes[k].state = "connecting"
  /\ p2p' = [p2p EXCEPT !.pipes[k].state = "connected",
                         !.up = p2p.pipeSocket # 0,
                         !.ev = "connect", !.wrote = p2p.pipeSocket,
                         !.sent = <<P2PFrame("status", "connected", p2p.pipes[k].session)>>]
  /\ P2PUnchanged

\* the session ends or the dial fails: the socket is destroyed, 'close' is
\* emitted later
P2PPipeEnd(k) ==
  /\ p2p.up
  /\ Alive(p2p, k)
  /\ p2p' = [p2p EXCEPT !.pipes = Destroy(p2p.pipes, k),
                         !.ev = "end", !.wrote = 0,
                         !.sent = IF p2p.pipes[k].state = "connecting"
                                    THEN <<P2PFrame("status", "disconnected", p2p.pipes[k].session)>>
                                    ELSE << >>]
  /\ P2PUnchanged

\* pipeSocket.on('close')
P2PPipeClose(k) ==
  /\ p2p.up
  /\ p2p.pipes[k].state = "destroyed"
  /\ p2p' = [p2p EXCEPT !.pipes[k].state = "closed",
                         !.pipeSocket = 0,
                         !.ev = "close", !.wrote = 0,
                         !.sent = <<P2PFrame("status", "disconnected", p2p.pipes[k].session)>>]
  /\ P2PUnchanged

\* case 'input' / 'control' / 'resize'
P2PForward(type) ==
  /\ p2p.up
  /\ p2p' = [p2p EXCEPT !.ev = type,
                         !.wrote = IF p2p.pipeSocket # 0 /\ Alive(p2p, p2p.pipeSocket)
                                     THEN p2p.pipeSocket ELSE 0,
                         !.sent = << >>]
  /\ P2PUnchanged

\* case 'ping'
P2PPing ==
  /\ p2p.up
  /\ p2p' = [p2p EXCEPT !.ev = "ping", !.wrote = 0,
                         !.sent = <<P2PFrame("pong", "", NULL)>>]
  /\ P2PUnchanged

AgIdle == agent = AgentBoot /\ agLog = AgLog("none", 0, 0) /\ p2p = P2PBoot

\* --------------------------------------------------- the web client
CLIENT_RECONNECT_DELAY == 5000
MAX_RECONNECT_DELAY    == 60000
MAX_SPLIT_PANELS       == 4

\* reconnectDelay is kept in eighths of a millisecond, which makes every
\* product by 1.5 below the cap an integer
DelayUnits == 8

MaxBrowserSocks == 9       \* hub WebSockets the client creates in one behaviour
BrowserSockIds  == 1..MaxBrowserSocks

NoSessionState == [status |-> "none", connected |-> FALSE]

BrowserBoot ==
  [loaded |-> FALSE, socks |-> [k \in BrowserSockIds |-> "none"], ws |-> 0,
   reconnectDelay |-> CLIENT_RECONNECT_DELAY * DelayUnits,
   reconnectTimeout |-> [state |-> "null", delay |-> 0],
   pingInterval |-> FALSE,
   sessions |-> [s \in Sessions |-> NoSessionState],
   chunks |-> [s \in Sessions |-> FALSE],
   focusedSessionId |-> NULL, lastFocusedSessionId |-> NULL, focusTerm |-> FALSE,
   focusStatus |-> "none", splitPanels |-> << >>, selectedMachine |-> FALSE,
   currentView |-> "machines", redials |-> 0]

NoWire == [k \in BrowserSockIds |-> << >>]

BrLog(ev, sock, frame) == [ev |-> ev, sock |-> sock, frame |-> frame]

NoFrame == [type |-> "none", sessionId |-> NULL, state |-> "", big |-> FALSE]

BrowserUnchanged ==
  UNCHANGED <<sr, produced, ring, conn, nextConn, pipeSockets, activeSessionId,
              messageCount, lastRateReset, now, quota, stream, lastOk, recent,
              mrVars, wsVars, slVars, upVars, hook, agVars, scVars>>

\* the state a client callback works on: the client's variables and the
\* frames it has sent
St(b, w) == [b |-> b, w |-> w]

IsOpen(b) == b.ws # 0 /\ b.socks[b.ws] = "open"

\* ws.send of a frame; focus records (history) the session the focus view
\* showed when an input frame was sent
SendFrame(st, type, s) ==
  St(st.b, [st.w EXCEPT ![st.b.ws] =
              Append(@, [type |-> type, sessionId |-> s,
                         focus |-> IF type = "input" THEN st.b.focusedSessionId
                                   ELSE NULL])])

\* scheduleReconnect: a new timeout with the current reconnectDelay
ScheduleReconnect(b) ==
  [b EXCEPT !.reconnectTimeout = [state |-> "armed", delay |-> b.reconnectDelay]]

FreeBrowserSocks(max) == {k \in 1..max : browser.socks[k] = "none"}

\* connect: nothing while a socket is connecting or open; else a new
\* WebSocket k, or scheduleReconnect when the constructor throws
Connect(b, k, throws) ==
  IF b.ws # 0 /\ b.socks[b.ws] \in {"connecting", "open"} THEN b
  ELSE IF throws THEN ScheduleReconnect(b)
  ELSE [b EXCEPT !.socks[k] = "connecting", !.ws = k]

Backoff_Linear(d) ==
  Min(d + CLIENT_RECONNECT_DELAY * DelayUnits, MAX_RECONNECT_DELAY * DelayUnits)

\* Math.min(reconnectDelay * 1.5, MAX_RECONNECT_DELAY)
Backoff(d) == Min((d * 3) \div 2, MAX_RECONNECT_DELAY * DelayUnits)

\* connectToSession: on an open socket, connect_session is sent and the
\* session's entry is (re)set to connecting
ConnectToSessionB(st, s) ==
  IF IsOpen(st.b)
    THEN LET sent == SendFrame(st, "connect_session", s)
         IN  St([sent.b EXCEPT !.sessions[s] =
                    [status |-> "connecting", connected |-> FALSE]], sent.w)
    ELSE st

RECURSIVE ConnectAll(_, _)
ConnectAll(st, panels) ==
  IF panels = << >> THEN st
  ELSE ConnectAll(ConnectToSessionB(st, Head(panels)), Tail(panels))

\* switchView
SwitchView(b, view) ==
  LET b1 == [b EXCEPT !.currentView = view]
  IN  IF view = "dashboard" THEN [b1 EXCEPT !.focusedSessionId = NULL]
      ELSE IF view = "machines" THEN [b1 EXCEPT !.selectedMachine = FALSE]
      ELSE b1

\* page load: init calls connect.  The URL is built from location.host
\* and the percent-encoded token, which the constructor always accepts.
PageLoad(max) ==
  /\ ~browser.loaded
  /\ \E k \in FreeBrowserSocks(max) :
       /\ \A j \in FreeBrowserSocks(max) : k <= j
       /\ browser' = Connect([browser EXCEPT !.loaded = TRUE], k, FALSE)
       /\ brLog' = BrLog("dial", k, NoFrame)
  /\ UNCHANGED wire
  /\ NoSend
  /\ BrowserUnchanged

\* ws.onopen
BrowserWsOpen(k) ==
  LET b0 == [browser EXCEPT !.socks[k] = "open",
                            !.reconnectDelay = CLIENT_RECONNECT_DELAY * DelayUnits,
                            !.pingInterval = TRUE, !.redials = 0]
      s0 == SendFrame(St(b0, wire), "list_machines", NULL)
      s1 == IF b0.selectedMachine /\ b0.focusedSessionId # NULL
              THEN ConnectToSessionB(s0, b0.focusedSessionId) ELSE s0
      s2 == IF b0.selectedMachine THEN ConnectAll(s1, b0.splitPanels) ELSE s1
  IN  /\ browser.socks[k] = "connecting"
      /\ browser' = s2.b
      /\ wire' = s2.w
      /\ brLog' = BrLog("open", k, NoFrame)
      /\ NoSend
      /\ BrowserUnchanged

\* ws.onclose with the close code
BrowserWsClose(k, code) ==
  LET b0 == [browser EXCEPT !.socks[k] = "closed", !.pingInterval = FALSE]
      b1 == IF code = 4001 THEN b0 ELSE ScheduleReconnect(b0)
      b2 == [b1 EXCEPT !.sessions =
               [s \in Sessions |-> [b1.sessions[s] EXCEPT !.connected = FALSE]]]
  IN  /\ browser.socks[k] \in {"connecting", "open"}
      /\ browser' = IF b2.focusedSessionId # NULL
                      THEN [b2 EXCEPT !.focusStatus = "disconnected"] ELSE b2
      /\ brLog' = BrLog("close", k, [NoFrame EXCEPT !.state = IF code = 4001 THEN "4001" ELSE "other"])
      /\ UNCHANGED wire
      /\ NoSend
      /\ BrowserUnchanged

\* the reconnect timeout fires: connect, then the delay grows
BrowserReconnectFire(max) ==
  /\ browser.reconnectTimeout.state = "armed"
  /\ \E k \in FreeBrowserSocks(max) :
       /\ \A j \in FreeBrowserSocks(max) : k <= j
       /\ LET b0 == Connect([browser EXCEPT !.reconnectTimeout.state = "fired"], k, FALSE)
          IN  browser' = [b0 EXCEPT !.reconnectDelay = Backoff(b0.reconnectDelay),
                                    !.redials = @ + 1]
       /\ brLog' = BrLog("redial", k, NoFrame)
  /\ UNCHANGED wire
  /\ NoSend
  /\ BrowserUnchanged

MaxWire == 4               \* frames the client sends on one WebSocket

\* the sessions the user opens views on
ViewSessions == {"s1", "s2"}

\* the client may still send a frame on its socket
CanSend == browser.ws = 0 \/ Len(wire[browser.ws]) < MaxWire

\* selectMachine for the local machine: requestProjects, then the dashboard
SelectMachine ==
  LET b0 == [browser EXCEPT !.selectedMachine = TRUE]
      s0 == IF IsOpen(b0) THEN SendFrame(St(b0, wire), "list_projects", NULL)
            ELSE St(b0, wire)
  IN  /\ browser.loaded /\ browser.currentView = "machines"
      /\ CanSend
      /\ browser' = SwitchView(s0.b, "dashboard")
      /\ wire' = s0.w
      /\ brLog' = BrLog("select", browser.ws, NoFrame)
      /\ NoSend
      /\ BrowserUnchanged

\* openFocusView: what it does to the client's variables other than the
\* terminal, and to the frames sent
OpenFocusViewB(st, s) ==
  LET returning == s = st.b.lastFocusedSessionId /\ st.b.focusTerm
      b0 == [st.b EXCEPT !.focusedSessionId = s, !.focusTerm = TRUE,
                         !.lastFocusedSessionId = s]
      s0 == IF returning THEN St(b0, st.w) ELSE ConnectToSessionB(St(b0, st.w), s)
      b1 == [s0.b EXCEPT !.focusStatus =
               IF ~returning THEN "connecting"
               ELSE IF s0.b.sessions[s].connected THEN "connected" ELSE "connecting"]
  IN  St(SwitchView(b1, "focus"), s0.w)

\* the user can open the focus view of s: from a card of the dashboard or
\* from the panel of s in the split view
FocusCard(s) ==
  /\ browser.selectedMachine
  /\ CanSend
  /\ browser.currentView \in {"dashboard", "split"}
  /\ browser.currentView = "split" =>
       \E i \in 1..Len(browser.splitPanels) : browser.splitPanels[i] = s

OpenFocusView(s) ==
  LET s0 == OpenFocusViewB(St(browser, wire), s)
  IN  /\ FocusCard(s)
      /\ browser' = s0.b
      /\ wire' = s0.w
      /\ brLog' = BrLog("focus", browser.ws, NoFrame)
      /\ NoSend
      /\ BrowserUnchanged

Without(panels, s) == SelectSeq(panels, LAMBDA x : x # s)

\* removeSplitPanel
RemoveSplitPanelB(b, s) ==
  IF \A i \in 1..Len(b.splitPanels) : b.splitPanels[i] # s THEN b
  ELSE LET b0 == [b EXCEPT !.splitPanels = Without(b.splitPanels, s)]
       IN  IF b0.splitPanels = << >> THEN SwitchView(b0, "dashboard") ELSE b0

\* addToSplitView
AddToSplitView(s) ==
  LET b0  == IF Len(browser.splitPanels) >= MAX_SPLIT_PANELS
               THEN RemoveSplitPanelB(browser, Head(browser.splitPanels))
               ELSE browser
      has == \E i \in 1..Len(b0.splitPanels) : b0.splitPanels[i] = s
      s0  == ConnectToSessionB(St([b0 EXCEPT !.splitPanels = Append(@, s)], wire), s)
  IN  /\ browser.selectedMachine
      /\ CanSend
      /\ browser.currentView = "dashboard"
      /\ browser' = IF has THEN SwitchView(b0, "split") ELSE SwitchView(s0.b, "split")
      /\ wire' = IF has THEN wire ELSE s0.w
      /\ brLog' = BrLog("split", browser.ws, NoFrame)
      /\ NoSend
      /\ BrowserUnchanged

\* the close button of a split panel
RemoveSplitPanel(s) ==
  /\ browser.currentView = "split"
  /\ \E i \in 1..Len(browser.splitPanels) : browser.splitPanels[i] = s
  /\ browser' = RemoveSplitPanelB(browser, s)
  /\ brLog' = BrLog("unsplit", browser.ws, NoFrame)
  /\ UNCHANGED wire
  /\ NoSend
  /\ BrowserUnchanged

\* the back button of the focus and split views
BackToDashboard ==
  /\ browser.currentView \in {"focus", "split"}
  /\ browser' = SwitchView(browser, "dashboard")
  /\ brLog' = BrLog("back", browser.ws, NoFrame)
  /\ UNCHANGED wire
  /\ NoSend
  /\ BrowserUnchanged

\* focusTerm.onData: sendInput
SendInput ==
  LET sends == browser.focusedSessionId # NULL /\ IsOpen(browser)
      s0    == IF sends THEN SendFrame(St(browser, wire), "input", NULL)
               ELSE St(browser, wire)
  IN  /\ browser.currentView = "focus"
      /\ CanSend
      /\ wire' = s0.w
      /\ brLog' = BrLog(IF sends THEN "input" ELSE "noinput", browser.ws,
                        [NoFrame EXCEPT !.sessionId = browser.focusedSessionId])
      /\ UNCHANGED browser
      /\ NoSend
      /\ BrowserUnchanged

\* the frames a hub or agent sends about a session: each bears the
\* session's id, and a scrollback frame is never empty; big: the scrollback
\* is longer than one chunk
SessionFrames ==
  {[type |-> ty, sessionId |-> s, state |-> "", big |-> FALSE] :
     ty \in {"output", "scrollback"}, s \in Sessions}
  \cup {[type |-> "scrollback", sessionId |-> s, state |-> "", big |-> TRUE] : s \in Sessions}
  \cup {[type |-> "status", sessionId |-> s, state |-> st, big |-> FALSE] :
          s \in Sessions, st \in {"connected", "disconnected"}}
  \cup {[type |-> "error", sessionId |-> s, state |-> "", big |-> FALSE] : s \in Sessions}

MarkConnected_Focused(b, id) ==
  IF b.focusedSessionId = NULL THEN b
  ELSE [b EXCEPT !.sessions[b.focusedSessionId] =
          [status |-> "connected", connected |-> TRUE]]

\* the session of the frame is marked connected, if the map has it
MarkConnected(b, id) ==
  IF b.sessions[id].status = "none" THEN b
  ELSE [b EXCEPT !.sessions[id] = [status |-> "connected", connected |-> TRUE]]

\* writeOutput, and the last chunk of writeScrollbackChunked: an entry is
\* made if there is none, and connected is set
Touch(b, id) ==
  IF b.sessions[id].status = "none"
    THEN [b EXCEPT !.sessions[id] = [status |-> "connected", connected |-> TRUE]]
    ELSE [b EXCEPT !.sessions[id].connected = TRUE]

FocusStatus(b, id, status) ==
  IF id = b.focusedSessionId THEN [b EXCEPT !.focusStatus = status] ELSE b

\* handleMessage, for the frames about sessions (msg.sessionId is set):
\* what it does to the client's variables other than the terminals
HandleMessageB(b, msg) ==
  LET id == msg.sessionId
  IN  IF msg.type = "output"
        THEN MarkConnected(FocusStatus(Touch(b, id), id, "connected"), id)
      ELSE IF msg.type = "scrollback"
        THEN LET b0 == IF msg.big THEN [b EXCEPT !.chunks[id] = TRUE]
                       ELSE Touch(b, id)
             IN  MarkConnected(FocusStatus(b0, id, "connected"), id)
      ELSE IF msg.type = "status" /\ msg.state = "connected"
        THEN MarkConnected(FocusStatus(b, id, "connected"), id)
      ELSE IF msg.type = "status" /\ msg.state = "disconnected"
        THEN LET b0 == FocusStatus(b, id, "disconnected")
             IN  IF b0.sessions[id].status = "none" THEN b0
                 ELSE [b0 EXCEPT !.sessions[id] =
                         [status |-> "disconnected", connected |-> FALSE]]
      ELSE b

HandleMessage(k, msg) ==
  LET id == msg.sessionId
  IN  /\ browser.socks[k] = "open"
      /\ browser' = HandleMessageB(browser, msg)
      /\ brLog' = BrLog("message", k, msg)
      /\ UNCHANGED wire
      /\ NoSend
      /\ BrowserUnchanged

\* the timeout that writes the last chunk of a long scrollback
ScrollbackLastChunk(s) ==
  /\ browser.chunks[s]
  /\ browser' = [Touch(browser, s) EXCEPT !.chunks[s] = FALSE]
  /\ brLog' = BrLog("chunk", 0, [NoFrame EXCEPT !.sessionId = s])
  /\ UNCHANGED wire
  /\ NoSend
  /\ BrowserUnchanged

\* the hub's connection for the client's WebSocket k, and back
HubClientOf(k) == IF k = 1 THEN "c1" ELSE "c2"

SockOf(c) == IF c = "c1" THEN 1 ELSE 2

\* case 'list_projects'
ClientListProjects(c) ==
  /\ OnMessage(c,
       /\ sr' = ListSessionsScan(sr)
       /\ Send(c, "list_projects", NULL, 0, <<Frame("projects", NULL, "", "", 0, 0)>>)
       /\ UNCHANGED <<conn, nextConn, pipeSockets, activeSessionId, stream>>)
  /\ UNCHANGED <<lastOk, mrVars, slVars, extVars>>

\* the frames of the client's socket that the hub has handled so far
Handled(c, max) == max - quota[c]

\* ws.on('message') at the hub for the next frame the client sent on the
\* socket: frames arrive in the order they were sent
HubRecv(c, max) ==
  LET i == Handled(c, max) + 1
      f == wire[SockOf(c)][i]
  IN  /\ i <= Len(wire[SockOf(c)])
      /\ IF f.type = "connect_session" THEN ClientConnectSession(c, f.sessionId)
         ELSE IF f.type = "input" THEN ClientInput(c)
         ELSE IF f.type = "list_machines" THEN ClientListMachines(c)
         ELSE ClientListProjects(c)

\* renderMachines: a machine card can be clicked once the hub has answered
\* the list_machines of the first socket
MachineCardClick(max) ==
  /\ Handled(HubClientOf(1), max) >= 1
  /\ SelectMachine

\* wss.on('connection') for the dial of the client's socket k
HubUpgrade(k) ==
  /\ browser.socks[k] = "connecting"
  /\ ClientOpen(HubClientOf(k), NULL, AUTH_TOKEN)

\* ws.onopen of socket k, once the hub has accepted the dial
BrowserWsAccepted(k) ==
  /\ clientWs[HubClientOf(k)].state = "open"
  /\ BrowserWsOpen(k)

\* ws.on('close') at the hub, once the client's socket k is closed
HubWsClose(k) ==
  /\ browser.socks[k] = "closed"
  /\ ClientWsClose(HubClientOf(k))

BrIdle == browser = BrowserBoot /\ wire = NoWire /\ brLog = BrLog("none", 0, NoFrame)

\* ------------------------------------------------ the scrollback ring
MAX_SCROLLBACK                == 10000
LAUNCHER_MAX_SCROLLBACK_BYTES == 52428800

\* A string is the sequence of its runs: [ch, n] stands for n >= 1 copies
\* of the character ch, and neighbouring runs differ in ch.  "E" stands for
\* a character of two UTF-8 bytes.
Run(ch, n) == [ch |-> ch, n |-> n]

NL == <<Run("\n", 1)>>

\* a + b
Cat(a, b) ==
  IF a = << >> THEN b
  ELSE IF b = << >> THEN a
  ELSE IF a[Len(a)].ch = b[1].ch
    THEN SubSeq(a, 1, Len(a) - 1) \o <<Run(b[1].ch, a[Len(a)].n + b[1].n)>> \o Tail(b)
    ELSE a \o b

Utf8Bytes(ch) == IF ch = "E" THEN 2 ELSE 1

\* Buffer.byteLength(s, 'utf8')
RECURSIVE ByteLength(_)
ByteLength(s) ==
  IF s = << >> THEN 0
  ELSE Head(s).n * Utf8Bytes(Head(s).ch) + ByteLength(Tail(s))

\* data.split('\n'): cur is the piece being read
RECURSIVE SplitFrom(_, _)
SplitFrom(cur, rest) ==
  IF rest = << >> THEN <<cur>>
  ELSE IF Head(rest).ch = "\n"
    THEN <<cur>> \o [i \in 1..(Head(rest).n - 1) |-> << >>]
               \o SplitFrom(<< >>, Tail(rest))
    ELSE SplitFrom(cur \o <<Head(rest)>>, Tail(rest))

SplitLines(data) == SplitFrom(<< >>, data)

\* scrollbackLines is the sequence of its runs: [line, n] stands for n >= 1
\* neighbouring entries holding the same line.
RECURSIVE RingLines(_)
RingLines(r) == IF r = << >> THEN 0 ELSE Head(r).n + RingLines(Tail(r))

RECURSIVE RingBytes(_)
RingBytes(r) ==
  IF r = << >> THEN 0
  ELSE Head(r).n * ByteLength(Head(r).line) + RingBytes(Tail(r))

\* scrollbackLines.shift()
Shift(r) ==
  IF Head(r).n > 1 THEN <<[Head(r) EXCEPT !.n = @ - 1]>> \o Tail(r) ELSE Tail(r)

\* scrollbackLines.push(line)
Push(r, line) ==
  IF r # << >> /\ r[Len(r)].line = line
    THEN [r EXCEPT ![Len(r)].n = @ + 1]
    ELSE Append(r, [line |-> line, n |-> 1])

\* launcher.js appendScrollback: the shift of the line count limit
ShiftCounted(q) ==
  [q EXCEPT !.ring = Shift(q.ring),
            !.scrollbackBytes = @ - ByteLength(Head(q.ring).line)]

\* launcher.js appendScrollback: the while loop of the byte limit
RECURSIVE TrimBytes(_, _)
TrimBytes(q, lineBytes) ==
  IF q.scrollbackBytes + lineBytes > LAUNCHER_MAX_SCROLLBACK_BYTES /\ q.ring # << >>
    THEN TrimBytes(ShiftCounted(q), lineBytes)
    ELSE q

\* launcher.js appendScrollback: the loop body
AppendLine(q, line) ==
  LET lineBytes == ByteLength(line)
      q1 == IF RingLines(q.ring) >= MAX_SCROLLBACK THEN ShiftCounted(q) ELSE q
      q2 == TrimBytes(q1, lineBytes)
  IN  [q2 EXCEPT !.ring = Push(q2.ring, line), !.scrollbackBytes = @ + lineBytes]

\* attach.js appendScrollback: the loop body; attach.js keeps no byte
\* counter (its preview buffer is not part of the ring and is left out)
AppendLineAttach(q, line) ==
  LET r1 == IF RingLines(q.ring) >= MAX_SCROLLBACK THEN Shift(q.ring) ELSE q.ring
  IN  [q EXCEPT !.ring = Push(r1, line)]

RECURSIVE AppendLines(_, _)
AppendLines(q, lines) ==
  IF lines = << >> THEN q
  ELSE AppendLines(IF q.kind = "attach.js" THEN AppendLineAttach(q, Head(lines))
                   ELSE AppendLine(q, Head(lines)),
                   Tail(lines))

\* appendScrollback
AppendScrollback(q, data) == AppendLines(q, SplitLines(data))

\* launcher.js getScrollback: scrollbackLines.join('\n')
RECURSIVE JoinFrom(_, _)
JoinFrom(acc, r) ==
  IF r = << >> THEN acc
  ELSE JoinFrom(Cat(Cat(acc, NL), Head(r).line), Shift(r))

GetScrollback(r) == IF r = << >> THEN << >> ELSE JoinFrom(Head(r).line, Shift(r))

\* a launcher of the given kind whose ring holds r: the ring and the byte
\* counter, then the number of data events, their concatenation, whether a
\* line was ever shifted out, and the scrollback frame written to the
\* latest peer (sends = FALSE: no frame)
RingAt(kind, r) ==
  [kind |-> kind, ring |-> r,
   scrollbackBytes |-> IF kind = "attach.js" THEN 0 ELSE RingBytes(r),
   events |-> 0, fed |-> << >>, evicted |-> FALSE,
   ev |-> "none", sends |-> FALSE, sent |-> << >>]

RingUnchanged ==
  UNCHANGED <<hubVars, mrVars, wsVars, slVars, upVars, hook, agVars, brVars>>

\* ptyProcess.onData: appendScrollback (the broadcast goes to the peers,
\* which this part of the model does not hold)
PtyOnData(data, max) ==
  LET q == AppendScrollback(sb, data)
  IN  /\ sb.events < max
      /\ sb' = [q EXCEPT !.events = @ + 1,
                         !.fed = Cat(sb.fed, data),
                         !.evicted = sb.evicted
                            \/ RingLines(q.ring) # RingLines(sb.ring) + Len(SplitLines(data)),
                         !.ev = "data", !.sends = FALSE, !.sent = << >>]
      /\ UNCHANGED term
      /\ RingUnchanged

\* net.createServer callback of launcher.js: the scrollback frame, if the
\* scrollback is not the empty string
PeerAttach ==
  LET scrollback == GetScrollback(sb.ring)
  IN  /\ sb.kind = "launcher.js"
      /\ sb.ev # "attach"
      /\ sb' = [sb EXCEPT !.ev = "attach", !.sends = scrollback # << >>,
                          !.sent = scrollback]
      /\ UNCHANGED term
      /\ RingUnchanged

\* ------------------------------------------- the client's focus terminal
SCROLLBACK_CHUNK_SIZE == 8000

\* one write to a terminal: the data of the output frame n, or the chunk of
\* the scrollback frame n that starts at offset
TermWrite(type, s, n, offset) ==
  [type |-> type, sessionId |-> s, n |-> n, offset |-> offset]

NoTerm ==
  [focus |-> << >>, recv |-> [s \in ViewSessions |-> << >>], jobs |-> << >>, n |-> 0]

TermUnchanged ==
  UNCHANGED <<sr, produced, ring, conn, nextConn, pipeSockets, activeSessionId,
              messageCount, lastRateReset, now, quota, stream, lastOk, recent,
              mrVars, wsVars, slVars, upVars, hook, agVars, sb>>

\* if (focusedSessionId === sessionId && focusTerm) focusTerm.write(...)
FocusWrite(tm, b, id, w) ==
  IF b.focusedSessionId = id /\ b.focusTerm
    THEN [tm EXCEPT !.focus = Append(@, w)] ELSE tm

\* writeOutput: the frame n goes to the focus terminal at once
WriteOutput(tm, b, id, n) == FocusWrite(tm, b, id, TermWrite("output", id, n, 0))

\* writeChunk of writeScrollbackChunked: job is the closure (sessionId, data,
\* offset); the chunk at offset is written and offset moves on
WriteChunk(tm, b, job) ==
  FocusWrite(tm, b, job.sessionId,
             TermWrite("scrollback", job.sessionId, job.n, job.offset))

NextChunk(job) == [job EXCEPT !.offset = @ + SCROLLBACK_CHUNK_SIZE]

\* the client has sent connect_session for s on its WebSocket k
AskedFor(k, s) ==
  \E i \in 1..Len(wire[k]) :
    wire[k][i].type = "connect_session" /\ wire[k][i].sessionId = s

\* handleMessage, case 'output' and case 'scrollback' with data of len
\* characters, with the terminal: writeOutput, or writeScrollbackChunked,
\* which writes the first chunk itself and leaves the rest to a timeout
TermMessage(k, type, s, len, max) ==
  LET n   == term.n + 1
      msg == [type |-> type, sessionId |-> s, state |-> "",
              big |-> type = "scrollback" /\ len > SCROLLBACK_CHUNK_SIZE]
      job == [sessionId |-> s, n |-> n, len |-> len, offset |-> 0]
      t0  == [term EXCEPT !.n = n]
  IN  /\ browser.socks[k] = "open"
      /\ term.n < max
      /\ AskedFor(k, s)
      /\ browser' = HandleMessageB(browser, msg)
      /\ term' = IF type = "output"
                   THEN WriteOutput([t0 EXCEPT !.recv[s] = Append(@, n)], browser, s, n)
                   ELSE [WriteChunk(t0, browser, job) EXCEPT
                           !.jobs = Append(@, NextChunk(job))]
      /\ brLog' = BrLog("message", k, msg)
      /\ UNCHANGED wire
      /\ NoSend
      /\ TermUnchanged

\* setTimeout(writeChunk, SCROLLBACK_CHUNK_DELAY) fires; the timeouts have
\* one delay, so they fire in the order they were set
TermChunk ==
  /\ term.jobs # << >>
  /\ LET job  == Head(term.jobs)
         s    == job.sessionId
         last == job.offset + SCROLLBACK_CHUNK_SIZE >= job.len
     IN  /\ IF job.offset >= job.len
              THEN /\ term' = [term EXCEPT !.jobs = Tail(@)]
                   /\ UNCHANGED browser
              ELSE /\ term' = [WriteChunk(term, browser, job) EXCEPT
                                 !.jobs = Append(Tail(@), NextChunk(job))]
                   /\ browser' = IF last
                                   THEN [Touch(browser, s) EXCEPT !.chunks[s] = FALSE]
                                   ELSE browser
         /\ brLog' = BrLog("chunk", 0, [NoFrame EXCEPT !.sessionId = s])
  /\ UNCHANGED wire
  /\ NoSend
  /\ TermUnchanged

\* openFocusView, with the terminal: a terminal is created if there is
\* none, and focusTerm.clear() is called unless the user returns to the
\* session the terminal shows
TermOpenFocusView(s) ==
  LET returning == s = browser.lastFocusedSessionId /\ browser.focusTerm
      s0 == OpenFocusViewB(St(browser, wire), s)
  IN  /\ FocusCard(s)
      /\ browser' = s0.b
      /\ wire' = s0.w
      /\ term' = IF returning THEN term
                 ELSE [term EXCEPT !.focus = << >>, !.recv[s] = << >>]
      /\ brLog' = BrLog("focus", browser.ws, NoFrame)
      /\ NoSend
      /\ TermUnchanged

ScIdle == sb = RingAt("launcher.js", << >>) /\ term = NoTerm

ExtIdle == UpIdle /\ hook = NoHook(FALSE, 0) /\ AgIdle /\ BrIdle /\ ScIdle

\* ------------------------------------------------------ specifications
\* s1 is a fresh session, the ring of s2 already fills a scrollback line of
\* exactly MAX_PIPE_BUFFER_SIZE characters, the file of s3 is stale.
HubAt(reg, q, t) ==
  /\ sr = reg
  /\ produced = [s \in Sessions |-> 0]
  /\ ring = [s \in Sessions |-> IF s = "s2" THEN MAX_PIPE_BUFFER_SIZE ELSE 0]
  /\ conn = [k \in ConnIds |-> FreeConn]
  /\ nextConn = 1
  /\ pipeSockets = [c \in Clients |-> [s \in Sessions |-> 0]]
  /\ activeSessionId = [c \in Clients |-> NULL]
  /\ messageCount = [c \in Clients |-> 0]
  /\ lastRateReset = [c \in Clients |-> t]
  /\ now = t
  /\ quota = q
  /\ wsSent = Sent(NULL, "none", NULL, 0, <<>>, {})
  /\ stream = [c \in Clients |-> [s \in Sessions |-> <<>>]]
  /\ lastOk = [c \in Clients |-> NULL]
  /\ recent = [c \in Clients |-> <<>>]

HubStart(reg, q) ==
  /\ HubAt(reg, q, 0)
  /\ MRInit
  /\ SLIdle
  /\ ExtIdle

\* one client, three sessions
HubInit ==
  /\ HubStart([s \in Sessions |-> IF s = "s3" THEN "stale" ELSE "live"],
             [c \in Clients |-> IF c = "c1" THEN MaxMsgs ELSE 0])
  /\ WsStart([c \in Clients |-> OpenWs])

HubNext ==
  \/ \E c \in Clients, s \in Sessions : ClientConnectSession(c, s)
  \/ \E c \in Clients : ClientInput(c)
  \/ \E k \in ConnIds : ConnectTimeout(k)
  \/ \E k \in ConnIds : PipeConnect(k)
  \/ \E k \in ConnIds, n \in 1..MaxChunk : PipeData(k, n)
  \/ \E k \in ConnIds : PipeError(k)
  \/ \E k \in ConnIds : PipeClose(k)
  \/ \E k \in ConnIds : LauncherAccept(k)
  \/ \E s \in Sessions : PtyData(s)
  \/ \E s \in Sessions : ChildExit(s)

Spec == HubInit /\ [][HubNext]_vars

\* two clients on the one live session s1, no I/O errors
PairInit ==
  /\ HubStart([s \in Sessions |-> IF s = "s1" THEN "live" ELSE "absent"],
             [c \in Clients |-> IF c = "c1" THEN MaxMsgs ELSE MaxMsgs2])
  /\ WsStart([c \in Clients |-> OpenWs])

PairNext ==
  \/ \E c \in Clients, s \in Sessions : ClientConnectSession(c, s)
  \/ \E c \in Clients : ClientInput(c)
  \/ \E k \in ConnIds : ConnectTimeout(k)
  \/ \E k \in ConnIds : PipeConnect(k)
  \/ \E k \in ConnIds, n \in 1..MaxChunk : PipeData(k, n)
  \/ \E k \in ConnIds : PipeClose(k)
  \/ \E k \in ConnIds : LauncherAccept(k)
  \/ \E s \in Sessions : PtyData(s)
  \/ \E s \in Sessions : ChildExit(s)

SpecPair == PairInit /\ [][PairNext]_vars

\* the machine registry: agents, the sweep, one client listing machines
MRStart ==
  /\ HubStart([s \in Sessions |-> IF s = "s3" THEN "stale" ELSE "live"],
             [c \in Clients |-> IF c = "c1" THEN MaxListMsgs ELSE 0])
  /\ WsStart([c \in Clients |-> OpenWs])

MRNext ==
  \/ \E a \in AgentSockets : AgentOpen(a)
  \/ \E a \in AgentSockets, m \in MachineIds \cup {""} : AgentRegister(a, m)
  \/ \E a \in AgentSockets, m \in MachineIds, n \in 0..MaxSessions : AgentSessions(a, m, n)
  \/ \E a \in AgentSockets, m \in MachineIds : AgentHeartbeat(a, m)
  \/ \E a \in AgentSockets : AgentClose(a)
  \/ Sweep
  \/ \E c \in Clients : ClientListMachines(c)
  \/ Tick(AGENT_CLEANUP_INTERVAL, MaxNow)

SpecMR == MRStart /\ [][MRNext]_vars

\* the rate limiter: one client sending a burst while the clock runs
MaxRateMsgs == 12     \* messages of the burst
MaxWsMsgs   == 2      \* messages of each client once its socket exists
RateTickMs  == 500    \* clock step (ms)
MaxRateNow  == 2000   \* the clock stops here (ms)

RateStart ==
  /\ HubStart([s \in Sessions |-> IF s = "s3" THEN "stale" ELSE "live"],
             [c \in Clients |-> IF c = "c1" THEN MaxRateMsgs ELSE 0])
  /\ WsStart([c \in Clients |-> OpenWs])

RateNext ==
  \/ \E c \in Clients : ClientInput(c)
  \/ Tick(RateTickMs, MaxRateNow)

SpecRate == RateStart /\ [][RateNext]_vars

\* client sockets from the upgrade on: authentication, liveness pings,
\* messages, and the close
WsInit ==
  /\ HubStart([s \in Sessions |-> IF s = "s3" THEN "stale" ELSE "live"],
              [c \in Clients |-> IF c = "c1" THEN MaxWsMsgs ELSE 0])
  /\ WsStart([c \in Clients |-> NewWs])

WsNext ==
  \/ \E c \in Clients, k \in Cookies \cup {NULL}, tk \in Tokens : ClientOpen(c, k, tk)
  \/ \E c \in Clients : ClientMessageRefused(c)
  \/ \E c \in Clients : ClientListSessions(c)
  \/ \E c \in Clients, s \in Sessions : ClientConnectSession(c, s)
  \/ \E k \in ConnIds : PipeConnect(k)
  \/ \E c \in Clients : WsPing(c)
  \/ \E c \in Clients : ClientPong(c)
  \/ \E c \in Clients : ClientWsClose(c)
  \/ \E k \in ConnIds : PipeClose(k)

SpecWs == WsInit /\ [][WsNext]_vars

\* auth sessions over a day and more, from the moment of a first login:
\* logins, requests bearing cookies, one WebSocket upgrade, and the hourly
\* sweep
MaxHttp    == 1
AuthTickMs == 3600000
MaxAuthNow == 93600000

AuthInit ==
  /\ HubStart([s \in Sessions |-> "live"], [c \in Clients |-> 0])
  /\ clientWs = [c \in Clients |-> IF c = "c1" THEN NewWs ELSE OpenWs]
  /\ activeSessions = [k \in Cookies |->
                         IF k = "k1" THEN [present |-> TRUE, lastSeen |-> 0]
                         ELSE NoAuthSession]
  /\ nextAuthSweep = AUTH_SESSION_CLEANUP_INTERVAL
  /\ authLog = NoAuthLog
  /\ httpLeft = MaxHttp

AuthNext ==
  \/ \E k \in Cookies \cup {NULL}, tk \in Tokens, pg \in Pages : HttpGet(k, tk, pg)
  \/ \E c \in Clients, k \in Cookies \cup {NULL}, tk \in Tokens : ClientOpen(c, k, tk)
  \/ AuthSweep
  \/ AuthTick(AuthTickMs, MaxAuthNow)

SpecAuth == AuthInit /\ [][AuthNext]_vars

\* filenames: a run of letters as long as it takes to pass the length cap,
\* between a few characters of every kind
MaxEdge == 2
PadLens == {0, 253, 254, 255, 300}

Rep(ch, n) == [i \in 1..n |-> ch]

Edges == UNION {[1..n -> Chars] : n \in 0..MaxEdge}

Filenames == {h \o Rep("a", n) \o tl : h \in Edges, n \in PadLens, tl \in Edges}

SanInit ==
  /\ HubAt([s \in Sessions |-> "live"], [c \in Clients |-> 0], 0)
  /\ MRInit
  /\ SLIdle
  /\ WsStart([c \in Clients |-> OpenWs])
  /\ disk = {}
  /\ upLog = NoUpload
  /\ hook = NoHook(FALSE, 0)
  /\ AgIdle
  /\ BrIdle
  /\ ScIdle
  /\ fn \in {[x |-> << >>, out |-> f, calls |-> 0] : f \in Filenames}

SanNext == SanitizeAgain

SpecSan == SanInit /\ [][SanNext]_vars

\* uploads of one client, attached to a session or not, under names with
\* separators and '..' segments
MaxUploads == 3

UploadNames ==
  { <<"a">>, << >>, <<".", ".">>, <<" ", ".", "a", ".">>,
    <<".", ".", "/", "a">>, <<".", ".", "/", "p", "q">>,
    <<".", ".", "\\", "p", "q">>, <<"a", "/", ".", ".", "/", ".", ".", "/", "p", "q">>,
    <<"/", "e", "/", "a">>, <<".", ".", "/", ".", ".", "/", "e", "/", "a">>,
    <<"q">>, <<"q", "/", ".", ".">>, <<":", "a">> }

UploadSizes == {-1, 3, MAX_UPLOAD_SIZE, MAX_UPLOAD_SIZE + 1}

UploadInit ==
  /\ HubStart([s \in Sessions |-> IF s = "s3" THEN "stale" ELSE "live"],
              [c \in Clients |-> IF c = "c1" THEN MaxUploads ELSE 0])
  /\ WsStart([c \in Clients |-> OpenWs])

UploadNext ==
  \/ \E c \in Clients, s \in Sessions : ClientConnectSession(c, s)
  \/ \E c \in Clients, s \in Sessions \cup {NULL}, f \in UploadNames,
        n \in UploadSizes : ClientUploadFile(c, s, f, n)

SpecUpload == UploadInit /\ [][UploadNext]_vars

\* webhook requests, with and without a configured secret
MaxHooks == 3

HookInit ==
  /\ HubAt([s \in Sessions |-> "live"], [c \in Clients |-> 0], 0)
  /\ MRInit
  /\ SLIdle
  /\ UpIdle
  /\ AgIdle
  /\ BrIdle
  /\ ScIdle
  /\ WsStart([c \in Clients |-> OpenWs])
  /\ hook \in {NoHook(secret, MaxHooks) : secret \in BOOLEAN}

HookNext ==
  \E b \in Bodies, sig \in Signatures, ev \in {"push", "ping"} :
    HandleGitHubWebhook(b, sig, ev)

SpecHook == HookInit /\ [][HookNext]_vars

\* the agent against a hub that accepts, refuses and drops its connections
AgTickMs == 5000
MaxAgNow == 45000

AgentInit ==
  /\ HubStart([s \in Sessions |-> "live"], [c \in Clients |-> 0])
  /\ WsStart([c \in Clients |-> OpenWs])

AgentNext ==
  \/ AgentListen
  \/ \E k \in HubSockIds : HubOpen(k)
  \/ \E k \in HubSockIds : HubSocketClose(k)
  \/ ReconnectFire
  \/ \E k \in HubSockIds : HeartbeatFire(k)
  \/ \E k \in HubSockIds : RefreshFire(k)
  \/ AgentSigint
  \/ AgentExit
  \/ AgentTick(AgTickMs, MaxAgNow)

SpecAgent == AgentInit /\ [][AgentNext]_vars

\* the client's hub socket against a hub that accepts, refuses and drops it
BrowserInit ==
  /\ HubStart([s \in Sessions |-> "live"], [c \in Clients |-> 0])
  /\ WsStart([c \in Clients |-> OpenWs])

ReconnectNext ==
  \/ PageLoad(MaxBrowserSocks)
  \/ \E k \in BrowserSockIds : BrowserWsOpen(k)
  \/ \E k \in BrowserSockIds, code \in {1006, 4001} : BrowserWsClose(k, code)
  \/ BrowserReconnectFire(MaxBrowserSocks)

SpecReconnect == BrowserInit /\ [][ReconnectNext]_vars

\* the client's views and the frames it receives about sessions
ClientNext ==
  \/ PageLoad(1)
  \/ \E k \in BrowserSockIds : BrowserWsOpen(k)
  \/ \E k \in BrowserSockIds : BrowserWsClose(k, 1006)
  \/ SelectMachine
  \/ \E s \in ViewSessions : OpenFocusView(s)
  \/ \E s \in ViewSessions : AddToSplitView(s)
  \/ \E s \in ViewSessions : RemoveSplitPanel(s)
  \/ BackToDashboard
  \/ \E k \in BrowserSockIds, msg \in {m \in SessionFrames : m.sessionId \in ViewSessions} :
       HandleMessage(k, msg)
  \/ \E s \in ViewSessions : ScrollbackLastChunk(s)

SpecClient == BrowserInit /\ [][ClientNext]_vars

\* the client and the hub end to end: the frames the client sends are
\* handled by the hub in order, on the connection of the socket they were
\* sent on.  The first socket may drop at any time; the one dialled after
\* it stays up.
MaxE2E == 4

E2EInit ==
  /\ HubStart([s \in Sessions |-> "live"], [c \in Clients |-> MaxE2E])
  /\ WsStart([c \in Clients |-> NewWs])

E2ENext ==
  \/ PageLoad(2)
  \/ \E k \in 1..2 : HubUpgrade(k)
  \/ \E k \in 1..2 : BrowserWsAccepted(k)
  \/ BrowserWsClose(1, 1006)
  \/ HubWsClose(1)
  \/ BrowserReconnectFire(2)
  \/ MachineCardClick(MaxE2E)
  \/ \E s \in ViewSessions : OpenFocusView(s)
  \/ \E s \in ViewSessions : AddToSplitView(s)
  \/ BackToDashboard
  \/ SendInput
  \/ \E c \in Clients : HubRecv(c, MaxE2E)
  \/ \E k \in ConnIds : PipeConnect(k)

SpecE2E == E2EInit /\ [][E2ENext]_vars

\* one client of the agent's P2P endpoint
P2PInit ==
  /\ HubStart([s \in Sessions |-> "live"], [c \in Clients |-> 0])
  /\ WsStart([c \in Clients |-> OpenWs])

P2PNext ==
  \/ \E s \in Sessions : ConnectToLocalSession(s)
  \/ \E k \in P2PPipeIds : P2PPipeConnect(k)
  \/ \E k \in P2PPipeIds : P2PPipeEnd(k)
  \/ \E k \in P2PPipeIds : P2PPipeClose(k)
  \/ \E type \in {"input", "control", "resize"} : P2PForward(type)
  \/ P2PPing

SpecP2P == P2PInit /\ [][P2PNext]_vars

\* rings at and near the two limits, of either launcher, and data events
\* with short and long lines
MaxAppends == 2
MaxLine    == 65536        \* characters of the longest line of a data event

RingSizes == {1, 799, 800, 9999, 10000}

LineSizes == {1, 5242, MaxLine}

RingStarts ==
  {<< >>} \cup
  {<<[line |-> <<Run("a", len)>>, n |-> n]>> :
     <<n, len>> \in {x \in RingSizes \X LineSizes :
                       x[1] * x[2] <= LAUNCHER_MAX_SCROLLBACK_BYTES}}

LongChunks ==
  {<<Run("a", 1)>>, <<Run("a", MaxLine)>>, <<Run("E", 1), Run("\n", 2), Run("a", 5242)>>}

RingInit ==
  /\ HubAt([s \in Sessions |-> "live"], [c \in Clients |-> 0], 0)
  /\ MRInit
  /\ SLIdle
  /\ WsStart([c \in Clients |-> OpenWs])
  /\ UpIdle
  /\ hook = NoHook(FALSE, 0)
  /\ AgIdle
  /\ BrIdle
  /\ sb \in {RingAt(kind, r) : kind \in {"launcher.js", "attach.js"}, r \in RingStarts}
  /\ term = NoTerm

RingNext == \E data \in LongChunks : PtyOnData(data, MaxAppends)

SpecRing == RingInit /\ [][RingNext]_vars

\* a fresh launcher.js launcher: data events of up to two characters, and
\* peers that attach
MaxChunks == 3

ShortChunks ==
  {<<Run("a", 1)>>, <<Run("\n", 1)>>, <<Run("a", 2)>>, <<Run("\n", 2)>>,
   <<Run("a", 1), Run("\n", 1)>>, <<Run("\n", 1), Run("a", 1)>>}

ScrollInit ==
  /\ HubStart([s \in Sessions |-> "live"], [c \in Clients |-> 0])
  /\ WsStart([c \in Clients |-> OpenWs])

ScrollNext ==
  \/ \E data \in ShortChunks : PtyOnData(data, MaxChunks)
  \/ PeerAttach

SpecScroll == ScrollInit /\ [][ScrollNext]_vars

\* the focus view of two sessions: frames arrive for the sessions the
\* client has attached to, a scrollback of one chunk or of two
MaxTermFrames == 3

ScrollbackLens == {SCROLLBACK_CHUNK_SIZE, SCROLLBACK_CHUNK_SIZE + 1}

TermNext ==
  \/ PageLoad(1)
  \/ BrowserWsOpen(1)
  \/ SelectMachine
  \/ \E s \in ViewSessions : TermOpenFocusView(s)
  \/ BackToDashboard
  \/ \E s \in ViewSessions : TermMessage(1, "output", s, 1, MaxTermFrames)
  \/ \E s \in ViewSessions, len \in ScrollbackLens :
       TermMessage(1, "scrollback", s, len, MaxTermFrames)
  \/ TermChunk

SpecTerm == BrowserInit /\ [][TermNext]_vars

\* a burst of one client that also attaches to sessions
FloodNext ==
  \/ \E c \in Clients, s \in Sessions : ClientConnectSession(c, s)
  \/ \E c \in Clients : ClientInput(c)
  \/ \E k \in ConnIds : PipeConnect(k)
  \/ Tick(RateTickMs, MaxRateNow)

SpecFlood == RateStart /\ [][FloodNext]_vars

\* the registry directory and the launchers started from the hub: s1 has no
\* file, s2 and s3 start with no file, an unreadable file, a record exactly
\* SESSION_TIMEOUT_MS old or a record one millisecond older
MaxSLMsgs == 3
SLEpoch   == 100000
SLTickMs  == 15000
MaxSLNow  == 130000

FileChoices ==
  {NoFile, BadFile, SessionInfo(1, SLEpoch - SESSION_TIMEOUT_MS),
   SessionInfo(1, SLEpoch - SESSION_TIMEOUT_MS - 1)}

SLInit ==
  /\ files \in [Sessions -> FileChoices]
  /\ files["s1"] = NoFile
  /\ launchers = [l \in LaunchIds |-> NoLauncher]
  /\ slLog = NoLog
  /\ ExtIdle
  /\ HubAt(Registry(files, SLEpoch),
           [c \in Clients |-> IF c = "c1" THEN MaxSLMsgs ELSE 0], SLEpoch)
  /\ MRInit
  /\ WsStart([c \in Clients |-> OpenWs])

SLNext ==
  \/ \E c \in Clients, name \in Names : ClientStartFolderSession(c, name)
  \/ \E c \in Clients : ClientListSessions(c)
  \/ AgentRefresh
  \/ \E l \in LaunchIds : ServerListen(l)
  \/ \E l \in LaunchIds : ServerError(l)
  \/ \E l \in LaunchIds : UpdateRegistry(l)
  \/ \E l \in LaunchIds : Shutdown(l)
  \/ \E l \in LaunchIds : LauncherPtyExit(l)
  \/ SLTick(SLTickMs, MaxSLNow)

SpecSL == SLInit /\ [][SLNext]_vars

\* ------------------------------------------------------------- C1 .. C6
\* pipes of client c for session s whose socket is up
LivePipes(c, s) ==
  {k \in ConnIds : conn[k].client = c /\ conn[k].session = s
                   /\ conn[k].sock \in {"connecting", "open"}}

\* the hub's table holds a connected pipeConn of c for s
Attached(c, s) ==
  pipeSockets[c][s] # 0 /\ conn[pipeSockets[c][s]].connected

\* C1: an input, control or resize frame is written to at most one pipe, the
\* one the client's table holds for the session of its latest accepted
\* connect_session (which is the client's activeSessionId), and to none when
\* that session has no connected pipe.
C1_InputOnlyToActive ==
  wsSent.by = "input" =>
    LET c == wsSent.to
        a == wsSent.sessionId
    IN  /\ \A k \in wsSent.wrote :
              /\ a # NULL
              /\ conn[k].client = c
              /\ conn[k].session = a
              /\ k = pipeSockets[c][a]
              /\ conn[k].connected
        /\ Cardinality(wsSent.wrote) <= 1
        /\ (a = NULL \/ ~Attached(c, a)) => wsSent.wrote = {}
        /\ activeSessionId[c] = a

\* an input frame was forwarded while the client also holds a connected pipe
\* of another session
C1_Witness ==
  /\ wsSent.by = "input"
  /\ wsSent.wrote # {}
  /\ \E s \in Sessions : s # wsSent.sessionId /\ Attached(wsSent.to, s)

\* C2: per client and session at most one dialed pipe is up.
C2_OnePipePerSession ==
  \A c \in Clients, s \in Sessions : Cardinality(LivePipes(c, s)) <= 1

\* C3: whenever a scrollback frame of a session is sent to a client, every
\* output frame of that session sent to it earlier was sent before the dial
\* of the attach the scrollback belongs to.
C3_ScrollbackFirst ==
  \A c \in Clients, s \in Sessions :
    LET h == stream[c][s]
    IN  \A i \in 1..Len(h) :
          h[i].ev = "scrollback" =>
            \A j \in 1..(i - 1) :
              h[j].ev = "output" =>
                \E d \in (j + 1)..(i - 1) :
                  h[d].ev = "dial" /\ h[d].conn = h[i].conn

IsOutputAfter(e, b) == e.ev = "output" /\ e.n > b

\* the numbers of the output chunks after chunk b that client c was sent
OutAfter(c, s, b) ==
  LET h == stream[c][s]
      RECURSIVE Pick(_)
      Pick(i) == IF i > Len(h) THEN <<>>
                 ELSE (IF IsOutputAfter(h[i], b) THEN <<h[i].n>> ELSE <<>>)
                      \o Pick(i + 1)
  IN  Pick(1)

Max(a, b) == IF a > b THEN a ELSE b

\* both clients hold a connected pipe of s that the launcher has accepted
BothAttached(c, d, s) ==
  /\ c # d
  /\ Attached(c, s) /\ conn[pipeSockets[c][s]].accepted
  /\ Attached(d, s) /\ conn[pipeSockets[d][s]].accepted

\* C4: two clients attached to one session are each sent the chunks produced
\* after both attached in the order of production, each chunk once.
C4_SameOrder ==
  \A c \in Clients, d \in Clients, s \in Sessions :
    BothAttached(c, d, s) =>
      LET b == Max(conn[pipeSockets[c][s]].base, conn[pipeSockets[d][s]].base)
          o == OutAfter(c, s, b)
      IN  \A i \in 1..Len(o) : o[i] = b + i

\* C5: a connect_session for a session the client's table holds a connected
\* pipe of is answered with exactly one status:connected frame of that
\* session; no pipe is dialed and no frame is requested from the launcher.
C5_DuplicateAttach ==
  [][\A c \in Clients, s \in Sessions :
       ( /\ Attached(c, s)
         /\ quota'[c] = quota[c] - 1
         /\ wsSent'.by = "connect_session"
         /\ wsSent'.sessionId = s )
       => /\ wsSent'.frames = <<StatusConnected(s)>>
          /\ wsSent'.to = c
          /\ nextConn' = nextConn
          /\ conn' = conn
          /\ pipeSockets' = pipeSockets
          /\ stream' = stream
          /\ activeSessionId'[c] = s]_vars

\* a connect_session was answered with status:connected after the client had
\* been sent the session's scrollback
C5_Witness ==
  /\ wsSent.by = "connect_session"
  /\ wsSent.frames = <<StatusConnected(wsSent.sessionId)>>
  /\ \E i \in 1..Len(stream[wsSent.to][wsSent.sessionId]) :
        stream[wsSent.to][wsSent.sessionId][i].ev = "scrollback"

\* C6: a connect_session for a session the registry does not list is
\* answered with an error frame and a status:disconnected frame with reason
\* 'Session not found', and dials nothing.
C6_NotFound ==
  ( /\ wsSent.by = "connect_session"
    /\ pipeSockets[wsSent.to][wsSent.sessionId] = 0 )
  => /\ wsSent.conn = 0
     /\ \E i \in 1..Len(wsSent.frames) : wsSent.frames[i].type = "error"
     /\ \E i \in 1..Len(wsSent.frames) :
           wsSent.frames[i] = Disconnected(wsSent.sessionId, "Session not found")

\* ------------------------------------------------------------ C7 .. C10
\* C7: when the 'close' of a socket that a newer registration closed with
\* code 4000 is processed, the machine record stays connected and bound to
\* the newer socket.
C7_ReplacedSocketClose ==
  [][\A a \in AgentSockets :
       ( /\ agentWs[a].state = "closing"
         /\ agentWs[a].code = 4000
         /\ agentWs'[a].state = "closed"
         /\ agentWs[a].registeredMachineId # NULL
         /\ machines[agentWs[a].registeredMachineId].status = "connected"
         /\ machines[agentWs[a].registeredMachineId].ws \notin {0, a} )
       => /\ machines'[agentWs[a].registeredMachineId].status = "connected"
          /\ machines'[agentWs[a].registeredMachineId].ws =
               machines[agentWs[a].registeredMachineId].ws]_vars

\* C8: the registry always holds LOCAL, local and connected, bound to no
\* agent socket; no agent socket is registered as LOCAL, a registration as
\* LOCAL is refused, and every list_machines reply lists LOCAL as connected.
C8_LocalAlways ==
  /\ machines[LOCAL_MACHINE_ID].present
  /\ machines[LOCAL_MACHINE_ID].isLocal
  /\ machines[LOCAL_MACHINE_ID].status = "connected"
  /\ machines[LOCAL_MACHINE_ID].ws = 0
  /\ \A a \in AgentSockets : agentWs[a].registeredMachineId # LOCAL_MACHINE_ID
  /\ (mrOut.by = "register" /\ mrOut.machineId = LOCAL_MACHINE_ID) => ~mrOut.success
  /\ mrOut.by = "list_machines" =>
       /\ mrOut.reply[LOCAL_MACHINE_ID].listed
       /\ mrOut.reply[LOCAL_MACHINE_ID].isLocal
       /\ mrOut.reply[LOCAL_MACHINE_ID].status = "connected"

\* a sweep has just run while LOCAL's lastSeen was older than the heartbeat
\* timeout, after an agent had registered and its socket had closed
C8_Witness ==
  /\ mrOut.by = "sweep"
  /\ now - machines[LOCAL_MACHINE_ID].lastSeen > AGENT_HEARTBEAT_TIMEOUT
  /\ machines["A"].status = "disconnected"
  /\ \E a \in AgentSockets : agentWs[a].state = "closed"

\* C9 as stated: once a machine has spent 45 s without a heartbeat, every
\* list_machines reply (until it registers again) lists it as disconnected.
C9_DisconnectedAfter45s ==
  mrOut.by = "list_machines" =>
    \A m \in MachineIds :
      silent[m] => /\ mrOut.reply[m].listed
                   /\ mrOut.reply[m].status = "disconnected"

\* C9, amended: once a sweep has found the machine's heartbeat timed out,
\* every list_machines reply until it registers again either lists it as
\* disconnected or, when its lastSeen is more than 90 s old, leaves it out.
C9_DisconnectedAfterSweep ==
  mrOut.by = "list_machines" =>
    \A m \in MachineIds :
      swept[m] =>
        /\ mrOut.reply[m].listed => mrOut.reply[m].status = "disconnected"
        /\ mrOut.reply[m].listed <=>
             ( /\ machines[m].present
               /\ now - machines[m].lastSeen <= 2 * AGENT_HEARTBEAT_TIMEOUT )

\* a list_machines reply lists as disconnected a machine that a sweep had
\* found timed out
C9_Witness ==
  /\ mrOut.by = "list_machines"
  /\ swept["A"]
  /\ silent["A"]
  /\ mrOut.reply["A"].listed
  /\ mrOut.reply["A"].status = "disconnected"

\* C10: of a client's messages of any interval shorter than a second at most
\* 10 were dispatched, and of any 12 of them in a row exactly 10.
C10_TenPerSecond ==
  \A c \in Clients :
    LET q == recent[c]
        Ok(S) == Cardinality({i \in S : q[i].ok})
    IN  /\ Ok(1..Len(q)) <= MAX_MESSAGES_PER_SECOND
        /\ \A i \in 1..(Len(q) - 11) : Ok(i..(i + 11)) = MAX_MESSAGES_PER_SECOND

C13_ConnectTimer ==
  [][/\ \A k \in ConnIds : conn[k].connected => ~conn[k].timer
     /\ wsSent'.by = "timeout" =>
          LET k == wsSent'.conn
              c == conn[k].client
              s == conn[k].session
          IN  /\ conn[k].timer /\ ~conn[k].connected
              /\ conn[k].sock = "connecting"
              /\ conn'[k].sock = "destroyed"
              /\ pipeSockets'[c][s] = 0
              /\ wsSent'.to = c
              /\ wsSent'.frames = <<Error(s, "Connection timeout"),
                                    Disconnected(s, "Connection timeout")>>
              /\ \A j \in ConnIds :
                   conn[j].connected =>
                     /\ conn'[j] = conn[j]
                     /\ pipeSockets[conn[j].client][conn[j].session] = j
                          => pipeSockets'[conn[j].client][conn[j].session] = j]_vars

\* the two frames the data handler sends when its buffer overflows
Overflow(s) ==
  <<Error(s, "Buffer overflow - connection reset"), Disconnected(s, "Buffer overflow")>>

\* C14: a data callback that finds at most MAX_PIPE_BUFFER_SIZE characters
\* buffered forwards them and leaves the pipe open; one that finds more
\* destroys the pipe and sends the error frame and status:disconnected with
\* reason 'Buffer overflow'.  Either way the client's WebSocket, the map of
\* pipeConns and every other pipe stay as they were, and no other callback
\* reports an overflow.
C14_BufferOverflow ==
  [][/\ wsSent'.by # "data" =>
          \A i \in 1..Len(wsSent'.frames) : wsSent'.frames[i].reason # "Buffer overflow"
     /\ wsSent'.by = "data" =>
          LET k == wsSent'.conn
              c == conn[k].client
              s == conn[k].session
          IN  /\ wsSent'.to = c
              /\ clientWs' = clientWs
              /\ pipeSockets' = pipeSockets
              /\ \A j \in ConnIds \ {k} : conn'[j] = conn[j]
              /\ \E n \in 1..Len(conn[k].inq) :
                   LET chunk == SubSeq(conn[k].inq, 1, n)
                   IN  IF SumLen(chunk) <= MAX_PIPE_BUFFER_SIZE
                         THEN /\ wsSent'.frames = Stamp(chunk, s)
                              /\ conn'[k].sock = "open"
                         ELSE /\ wsSent'.frames = Overflow(s)
                              /\ conn'[k].sock = "destroyed"
                              /\ conn'[k].buffer = SumLen(chunk)]_vars

\* a pipe has just been closed for overflow while the client holds another
\* connected pipe, and a scrollback of exactly MAX_PIPE_BUFFER_SIZE
\* characters has been forwarded to the same client
C14_Witness ==
  /\ wsSent.by = "data"
  /\ wsSent.frames = Overflow(wsSent.sessionId)
  /\ \E j \in ConnIds \ {wsSent.conn} :
       /\ conn[j].client = wsSent.to
       /\ conn[j].connected /\ conn[j].sock = "open"
  /\ \E s \in Sessions :
       /\ ring[s] = MAX_PIPE_BUFFER_SIZE
       /\ \E i \in 1..Len(stream[wsSent.to][s]) :
            stream[wsSent.to][s][i].ev = "scrollback"

\* C15: a scan of the registry returns exactly the records whose lastSeen is
\* at most SESSION_TIMEOUT_MS old; an older record is left out and its file is
\* gone after the scan; an unreadable file is left out and left in place; a
\* fresh record stays.  The hub's view of the registry is the one the files
\* give.
C15_ScanFiltersStale ==
  [][/\ sr = Registry(files, now)
     /\ slLog'.ev = "scan" =>
          /\ slLog'.ids = {s \in Sessions : /\ files[s].kind = "rec"
                                            /\ now - files[s].lastSeen <= SESSION_TIMEOUT_MS}
          /\ \A s \in Sessions :
               CASE files[s].kind = "rec" /\ now - files[s].lastSeen > SESSION_TIMEOUT_MS
                      -> s \notin slLog'.ids /\ files'[s].kind = "none"
                 [] files[s].kind = "bad"
                      -> s \notin slLog'.ids /\ files'[s] = files[s]
                 [] OTHER -> files'[s] = files[s]]_vars

\* a scan has returned a record exactly SESSION_TIMEOUT_MS old, unlinked an
\* older one and skipped an unreadable file
C15_Witness ==
  /\ slLog.ev = "scan"
  /\ \E s \in slLog.ids : now - files[s].lastSeen = SESSION_TIMEOUT_MS
  /\ slLog.unlinked # {}
  /\ \E s \in Sessions : files[s].kind = "bad"

\* C16: the step in which a launcher shuts down on a signal or on the exit of
\* its child leaves no registry file for its session; a launcher that has
\* exited has no update timer and writes nothing; and a registry file only
\* ever appears or changes by the write of a launcher that is listening.
C16_CleanShutdown ==
  [][/\ \A l \in LaunchIds :
          /\ ( /\ launchers[l].state # "exited"
               /\ launchers'[l].state = "exited"
               /\ launchers'[l].exit \in {"signal", "child"} )
               => files'[launchers[l].session].kind = "none"
          /\ launchers[l].state = "exited" =>
               /\ ~launchers[l].timer
               /\ ~(slLog'.ev = "write" /\ slLog'.launcher = l)
     /\ \A s \in Sessions :
          (files'[s].kind = "rec" /\ files'[s] # files[s]) =>
             /\ slLog'.ev = "write"
             /\ launchers'[slLog'.launcher].session = s
             /\ launchers'[slLog'.launcher].state = "listening"]_vars

\* a launcher that had registered has shut down cleanly and its file is gone
C16_Witness ==
  \E l \in LaunchIds :
    /\ launchers[l].state = "exited"
    /\ launchers[l].exit \in {"signal", "child"}
    /\ launchers[l].registered
    /\ files[launchers[l].session].kind = "none"
    /\ slLog = LauncherLog("exit", l)

MAX_SCROLLBACK_BYTES == 50000

\* C18: every scrollback frame a launcher has written to a peer carries at
\* most MAX_SCROLLBACK_BYTES characters and is followed by status:connected.
C18_ScrollbackCapped ==
  \A k \in ConnIds :
    \A i \in 1..Len(conn[k].inq) :
      conn[k].inq[i].type = "scrollback" =>
        /\ conn[k].inq[i].len <= MAX_SCROLLBACK_BYTES
        /\ i < Len(conn[k].inq)
        /\ conn[k].inq[i + 1].type = "status"
        /\ conn[k].inq[i + 1].state = "connected"

\* C19: a start_folder_session for a folder whose launcher is up, listening
\* on its pipe and registered, is answered with success and alreadyRunning
\* and starts no launcher.
C19_AlreadyRunning ==
  [][\A s \in ProjectFolders :
       ( /\ slLog'.ev = "start"
         /\ wsSent'.by = "start_folder_session"
         /\ wsSent'.sessionId = s
         /\ \E l \in Listening(s) : launchers[l].registered )
         => /\ wsSent'.frames = <<StartResult(s, TRUE, TRUE, "")>>
            /\ launchers' = launchers]_vars

\* the socket of client c came with neither the configured token nor a
\* cookie the hub knew when it arrived
Unauthenticated(w) ==
  w.state # "new" /\ w.token # AUTH_TOKEN /\ ~w.known

\* C20: a client socket that presents neither the configured token nor a
\* known session cookie is answered with the error frame alone and closed
\* with code 4001; afterwards nothing is sent to it, its messages change
\* nothing at the hub (no scan of the registry, no rate-limiter count, no
\* pipe, no active session) and no pipe ever belongs to it.
C20_Unauthenticated ==
  [][\A c \in Clients :
       Unauthenticated(clientWs'[c]) =>
         /\ clientWs'[c].code = 4001
         /\ clientWs'[c].state \in {"refused", "closed"}
         /\ IF clientWs[c].state = "new"
              THEN /\ wsSent' = Sent(c, "connection", NULL, 0,
                                     <<Error(NULL, "Authentication failed")>>, {})
                   /\ clientWs'[c].state = "refused"
              ELSE wsSent'.to # c
         /\ (clientWs[c].state = "new" \/ quota'[c] # quota[c]) =>
              UNCHANGED <<sr, conn, nextConn, pipeSockets, activeSessionId,
                          messageCount, lastRateReset, stream, activeSessions>>
         /\ \A k \in ConnIds : conn'[k].client # c
         /\ \A s \in Sessions : pipeSockets'[c][s] = 0 /\ stream'[c][s] = <<>>]_vars

\* the socket of c1 was refused for an unknown cookie and a wrong token, and
\* c1 has sent a message on it since
C20_Witness ==
  /\ Unauthenticated(clientWs["c1"])
  /\ clientWs["c1"].cookie # NULL
  /\ clientWs["c1"].token = "wrong"
  /\ clientWs["c1"].state = "refused"
  /\ quota["c1"] < MaxWsMsgs

\* C21 as stated: a cookie whose session has been idle for more than 24 h
\* never authorizes a request (an HTTP request or a WebSocket upgrade).
C21_IdleNeverAuthorizes ==
  [][authLog'.via = "cookie" => authLog'.idle <= AUTH_SESSION_MAX_IDLE]_vars

\* C21 amended: idleness is enforced by the hourly sweep alone.  Every sweep
\* deletes exactly the sessions idle for more than 24 h, so a cookie
\* authorizes only while its session has been idle for at most 24 h plus one
\* sweep period, and a deleted session's cookie authorizes nothing.
C21_IdleCapBySweep ==
  [][ /\ authLog'.via = "cookie" =>
          /\ activeSessions[authLog'.cookie].present
          /\ authLog'.idle <= AUTH_SESSION_MAX_IDLE + AUTH_SESSION_CLEANUP_INTERVAL
      /\ now' = nextAuthSweep' - AUTH_SESSION_CLEANUP_INTERVAL =>
          \A k \in Cookies :
            activeSessions'[k].present =>
              now' - activeSessions'[k].lastSeen <= AUTH_SESSION_MAX_IDLE ]_vars

\* a request bearing the cookie of a session idle for more than 24 h, made
\* before the next sweep, has been served
C21_Witness ==
  /\ authLog.via = "cookie"
  /\ authLog.idle > AUTH_SESSION_MAX_IDLE
  /\ authLog.status = 200
  /\ activeSessions[authLog.cookie].lastSeen = now

\* C24: sanitizeFilename is idempotent: applied to its own result it
\* returns that result, also for inputs longer than 255 characters.
C24_Idempotent ==
  [][fn.calls = 1 => fn'.out = fn.out]_vars

\* the normalized path names a file below the directory cwd
InsideCwd(path, cwd) ==
  /\ StartsWith(path, cwd \o <<"/">>)
  /\ Len(path) > Len(cwd) + 1
  /\ LET parts == SplitPath(SubSeq(path, Len(cwd) + 2, Len(path)))
     IN  \A i \in 1..Len(parts) : parts[i] \notin {<< >>, <<".">>, <<".", ".">>}

\* C22: whatever filename an upload_file request carries, the only path
\* the hub may write is a file inside the working directory of the
\* request's target session, and a refused upload writes nothing.
C22_UploadStaysInCwd ==
  [][ /\ \A p \in disk' \ disk :
           /\ upLog'.result = "saved" /\ upLog'.path = p
           /\ upLog'.session \in Sessions
           /\ InsideCwd(p, Cwd(upLog'.session))
      /\ upLog'.result = "saved" => InsideCwd(upLog'.path, Cwd(upLog'.session)) ]_vars

\* an upload named with '..' segments and separators has been saved
C22_Witness ==
  /\ upLog.result = "saved"
  /\ \E i \in 1..Len(upLog.filename) : upLog.filename[i] \in Separators
  /\ \E i \in 1..(Len(upLog.filename) - 1) :
        upLog.filename[i] = "." /\ upLog.filename[i + 1] = "."
  /\ upLog.path \in disk

\* C23: with a webhook secret configured, a webhook request whose signature
\* header is missing or does not match the body, whatever its length, is
\* answered with 401, pulls nothing and leaves the hub running.
C23_BadSignature401 ==
  [][ ( /\ hook.secret
        /\ hook'.left < hook.left
        /\ ( hook'.signature = NoSignature
             \/ hook'.signature.len # DIGEST_LENGTH
             \/ hook'.signature.of # hook'.body ) )
      => hook'.status = 401 /\ ~hook'.pulled /\ hook'.up ]_vars

LiveHubSockets == {k \in HubSockIds : agent.sockets[k] \in {"connecting", "open", "closing"}}

RunningHeartbeats == {k \in HubSockIds : agent.intervals[k].hb.state = "running"}

\* C25: every close of the hub connection while the agent is not shutting
\* down arms the reconnect timer for 5 s later, every re-dial happens 5 s
\* after the latest close, an agent that is running without a connection
\* always has the timer armed, and at no time are there two hub connections
\* or two running heartbeat timers.
C25_Redial ==
  /\ [](/\ Cardinality(LiveHubSockets) <= 1
        /\ Cardinality(RunningHeartbeats) <= 1
        /\ agLog.ev # "nodial"
        /\ ( agent.started /\ ~agent.isShuttingDown /\ LiveHubSockets = {} )
             => agent.hubReconnectTimer.state = "armed")
  /\ [][ /\ ( agLog'.ev = "close" /\ ~agent.isShuttingDown )
             => agent'.hubReconnectTimer =
                  [state |-> "armed", due |-> now + RECONNECT_DELAY]
         /\ ( agLog'.ev = "dial" /\ agent.started )
             => /\ ~agent.isShuttingDown
                /\ now = agent.closedAt + RECONNECT_DELAY ]_vars

\* the agent dials for the third time, after two connections have closed
C25_Witness ==
  /\ agLog.ev = "dial"
  /\ agent.sockets = [k \in HubSockIds |-> IF k = 3 THEN "connecting" ELSE "closed"]
  /\ agent.hubSocket = 3
  /\ now = agent.closedAt + RECONNECT_DELAY

\* 5000 * 1.5^n ms capped at 60000 ms, in eighths of a millisecond
ExpectedDelay(n) ==
  IF n >= 7 THEN 480000
  ELSE <<40000, 60000, 90000, 135000, 202500, 303750, 455625>>[n + 1]

LiveBrowserSocks == {k \in BrowserSockIds : browser.socks[k] \in {"connecting", "open"}}

ConnectsSession(msg) ==
  \/ msg.type \in {"output", "scrollback"}
  \/ msg.type = "status" /\ msg.state = "connected"

\* C27: in the client's sessions map, a session that is connecting becomes
\* connected when, and only when, an output, scrollback or status:connected
\* frame bearing its id is handled; a session becomes disconnected when a
\* status:disconnected frame bearing its id is handled; a frame bearing
\* another session's id leaves the session's entry as it is.
C27_SessionState ==
  [][ \A s \in Sessions :
        /\ ( browser.sessions[s].status = "connecting"
             /\ browser'.sessions[s].status = "connected" )
             => /\ brLog'.ev = "message"
                /\ brLog'.frame.sessionId = s
                /\ ConnectsSession(brLog'.frame)
        /\ ( brLog'.ev = "message" /\ brLog'.frame.sessionId = s
             /\ ConnectsSession(brLog'.frame)
             /\ browser.sessions[s].status = "connecting" )
             => browser'.sessions[s] = [status |-> "connected", connected |-> TRUE]
        /\ ( brLog'.ev = "message" /\ brLog'.frame.sessionId = s
             /\ brLog'.frame.type = "status" /\ brLog'.frame.state = "disconnected"
             /\ browser.sessions[s].status # "none" )
             => browser'.sessions[s] = [status |-> "disconnected", connected |-> FALSE]
        /\ ( brLog'.ev = "message" /\ brLog'.frame.sessionId # s )
             => browser'.sessions[s] = browser.sessions[s] ]_vars

\* with s2 in the focus view and s1 in a split panel, both connecting, a
\* frame bearing the id of s1 has connected s1 alone
C27_Witness ==
  /\ brLog.ev = "message"
  /\ brLog.frame.sessionId = "s1"
  /\ ConnectsSession(brLog.frame)
  /\ browser.focusedSessionId = "s2"
  /\ browser.sessions["s1"] = [status |-> "connected", connected |-> TRUE]
  /\ browser.sessions["s2"] = [status |-> "connecting", connected |-> FALSE]

C29_ForwardedToB ==
  ( /\ p2p.ev \in {"input", "control", "resize"}
    /\ p2p.switched
    /\ Alive(p2p, p2p.target) )
  => p2p.wrote = p2p.target

\* C30: an agent:sessions or agent:heartbeat message changes no machine
\* record other than the one whose id was registered on the connection it
\* arrives on; before a successful registration it changes no record.
C30_OnlyOwnRecord ==
  [][ mrOut'.by \in {"sessions", "heartbeat"}
      => \A m \in MachineIds :
           machines'[m] # machines[m]
             => m = agentWs[mrOut'.ws].registeredMachineId ]_vars

\* C31: after every append to a launcher's scrollback ring, the ring holds
\* at most 10 000 lines and at most 50 MB of UTF-8 bytes, and the byte
\* counter of a launcher that keeps one equals the sum of the byte lengths
\* of the lines in the ring.
C31_RingCaps ==
  sb.ev = "data" =>
    /\ RingLines(sb.ring) <= MAX_SCROLLBACK
    /\ RingBytes(sb.ring) <= LAUNCHER_MAX_SCROLLBACK_BYTES
    /\ sb.kind = "launcher.js" => sb.scrollbackBytes = RingBytes(sb.ring)

\* C36: as long as no line has been shifted out of the ring, the data of
\* the scrollback frame written to a peer that attaches is the
\* concatenation, in order, of the PTY output chunks received so far.
C36_ScrollbackIsOutput ==
  (sb.ev = "attach" /\ ~sb.evicted /\ sb.events > 0)
    => (sb.sends /\ sb.sent = sb.fed)

\* C32: in the focus terminal, no output frame of a session comes before a
\* chunk of a scrollback frame of that session that arrived earlier: every
\* chunk of a scrollback frame is written before any output frame that
\* arrived after it.
C32_ScrollbackBeforeOutput ==
  \A i \in 1..Len(term.focus) : \A j \in 1..Len(term.focus) :
    ~ /\ i < j
      /\ term.focus[i].type = "output"
      /\ term.focus[j].type = "scrollback"
      /\ term.focus[i].sessionId = term.focus[j].sessionId
      /\ term.focus[i].n > term.focus[j].n

\* C33: while the focus view shows a session, the focus terminal holds
\* every output frame the client received for it since its connect_session,
\* those received while the dashboard was shown included.
C33_FocusHoldsOutput ==
  \A s \in ViewSessions :
    (browser.currentView = "focus" /\ browser.focusedSessionId = s) =>
      \A i \in 1..Len(term.recv[s]) :
        \E j \in 1..Len(term.focus) :
          term.focus[j] = TermWrite("output", s, term.recv[s][i], 0)

\* C34: the step in which a launcher aborts because the pipe name of its
\* session id is taken by a listening launcher leaves every registry file as
\* it was: the file of the listening launcher is neither written, changed
\* nor removed, and the session stays listed.
C34_AbortKeepsFile ==
  [][\A l \in LaunchIds :
       ( /\ launchers[l].state = "starting"
         /\ Listening(launchers[l].session) # {}
         /\ launchers'[l].state = "exited"
         /\ launchers'[l].exit = "error" )
         => /\ files' = files
            /\ sr' = sr]_vars

\* C35: a step that changes a record of the machine registry is the
\* callback of an agent connection (its opening, a register, sessions or
\* heartbeat message, its close) or the stale-machine sweep; a message of a
\* client, list_machines included, leaves every record as it was.
C35_ClientsKeepRegistry ==
  [][ machines' # machines
      => mrOut'.by \in {"connection", "register", "sessions", "heartbeat",
                        "close", "sweep"} ]_vars

====
